---- MODULE Spec2Model ----
(***************************************************************************)
(* Verification model of alexandria-cli.                                   *)
(*                                                                         *)
(* Part 1: src/utils/documentParser.ts, extractStructureFromMarkdown.      *)
(* A JavaScript string is modelled as a sequence of one-character strings, *)
(* so that startsWith, trim, split and the four regular expressions of the *)
(* parser are computed character by character.  The empty sequence is the  *)
(* empty string; it also stands for an absent optional string argument,    *)
(* since the code only ever tests such values for truthiness.              *)
(***************************************************************************)
EXTENDS Integers, Sequences, FiniteSets, TLC

VARIABLES content, repositoryPath, disk, pc, lines, i, name, description,
          inDescription, currentSection, currentFiles, sectionIndex, maxRow,
          maxCol, referenceGroups, result

\* Part 2: src/utils/viewCreation.ts.  The arguments of
\* createViewsFromDocuments, the position of its for loop, its results, and
\* the position inside one call of createViewFromDocument.
VARIABLES documents, options, docIndex, results, cpc

\* The views the store of the core library has been asked to write, oldest
\* first.
VARIABLES store

\* Part 3: src/utils/validation.ts.  The identifiers given to
\* validateSpecificViews, the position of the for loop of either function,
\* its results, and which function runs.
VARIABLES identifiers, viewIndex, validationResults, vpc

\* Part 4: src/utils/coverage.ts.  The files of the working tree, those
\* matched by .gitignore, the options of getContextCoverage, its two sets,
\* the metrics it returns, and its position.
VARIABLES repositoryFiles, gitignored, coverageOptions, sourceFiles,
          referencedFiles, metrics, kpc

parserVars == <<content, repositoryPath, disk, pc, lines, i, name,
                description, inDescription, currentSection, currentFiles,
                sectionIndex, maxRow, maxCol, referenceGroups, result>>

creationVars == <<documents, options, docIndex, results, cpc>>

validationVars == <<identifiers, viewIndex, validationResults, vpc>>

coverageVars == <<repositoryFiles, gitignored, coverageOptions, sourceFiles,
                  referencedFiles, metrics, kpc>>

\* Part 5: the stamp operation.  The identifier and the optional timestamp
\* given to stampView, the clock, what the call returned, and its position.
VARIABLES viewId, timestamp, now, stamped, spc

stampVars == <<viewId, timestamp, now, stamped, spc>>

\* Part 6: the three enumerations of untracked documents.  The exclude
\* patterns of the configuration, the output of list-untracked-docs, what
\* getUntrackedDocs of the status command and findUntrackedDocuments
\* returned, and which of the three have run.
VARIABLES excludePatterns, jsonOutput, untrackedDocs, untrackedDocuments, ran

untrackedVars == <<excludePatterns, jsonOutput, untrackedDocs,
                   untrackedDocuments, ran>>

\* Part 7: src/commands/validate-all.ts.  The display options of the
\* command and the status the process exits with.
VARIABLES displayOptions, exitStatus

validateAllVars == <<displayOptions, exitStatus>>

\* Part 8: src/utils/repository.ts.  The argument of findRepositoryRoot,
\* the variable of its loop, the directories that hold an entry '.git',
\* what it returned ('' for null), what the command wrote to the error
\* stream, and the position.
VARIABLES startPath, currentPath, gitDirectories, repoPath, errorOutput, rpc

rootVars == <<startPath, currentPath, gitDirectories, repoPath, errorOutput,
              rpc>>

\* Part 10: src/commands/outpost.ts.  The content of the PID file and of
\* the configuration file, the outpost servers that are alive, the number
\* of servers spawned so far, and the invocations of the command with
\* their positions and local variables.
VARIABLES pidFile, configFile, alive, spawned, invocations

outpostVars == <<pidFile, configFile, alive, spawned, invocations>>

commandVars == <<stampVars, untrackedVars, validateAllVars, rootVars,
                 outpostVars>>

otherThanStamp == <<untrackedVars, validateAllVars, rootVars, outpostVars>>
otherThanUntracked == <<stampVars, validateAllVars, rootVars, outpostVars>>
otherThanValidateAll == <<stampVars, untrackedVars, rootVars, outpostVars>>
otherThanRoot == <<stampVars, untrackedVars, outpostVars>>
otherThanOutpost == <<stampVars, untrackedVars, validateAllVars, rootVars>>

callerVars == <<creationVars, store, validationVars, coverageVars,
                commandVars>>

vars == <<parserVars, callerVars>>

\* no call of createViewsFromDocuments is active
CreationIdle ==
  /\ documents = <<>>
  /\ options = [name |-> <<>>, description |-> <<>>, category |-> <<>>,
                skipValidation |-> FALSE, dryRun |-> FALSE]
  /\ docIndex = 0
  /\ results = <<>>
  /\ cpc = "idle"

\* no call of validateAllViews or validateSpecificViews is active
ValidationIdle ==
  /\ identifiers = <<>>
  /\ viewIndex = 0
  /\ validationResults = <<>>
  /\ vpc = "idle"

\* the value of metrics before calculateCoverageMetrics has returned
NoMetrics ==
  [totalFiles |-> 0, coveredFiles |-> 0, coveredFilesList |-> <<>>,
   uncoveredFiles |-> <<>>,
   coveragePercentage |-> [numerator |-> 0, denominator |-> 1],
   filesByExtension |-> <<>>]

\* no call of getContextCoverage is active
CoverageIdle ==
  /\ repositoryFiles = {}
  /\ gitignored = {}
  /\ coverageOptions = [includeExtensions |-> <<>>,
                        includeExtensionsGiven |-> FALSE,
                        excludePatterns |-> <<>>,
                        excludePatternsGiven |-> FALSE,
                        useGitignore |-> TRUE]
  /\ sourceFiles = {}
  /\ referencedFiles = {}
  /\ metrics = NoMetrics
  /\ kpc = "idle"

\* no call of stampView is active
StampIdle ==
  /\ viewId = <<>>
  /\ timestamp = [given |-> FALSE, value |-> 0]
  /\ now = 0
  /\ stamped = FALSE
  /\ spc = "idle"

\* the value of jsonOutput before list-untracked-docs has run
NoOutput ==
  [total |-> 0, totalMarkdownFiles |-> 0, filesInViews |-> 0,
   untrackedFiles |-> {}]

\* none of the enumerations of untracked documents has run
UntrackedIdle ==
  /\ excludePatterns = <<>>
  /\ jsonOutput = NoOutput
  /\ untrackedDocs = {}
  /\ untrackedDocuments = {}
  /\ ran = {}

\* the status of a process that has not exited, and of one that has
NotExited == [exited |-> FALSE, code |-> 0]
Exited(code) == [exited |-> TRUE, code |-> code]

\* validate-all has not been run
ValidateAllIdle ==
  /\ displayOptions = [summary |-> FALSE, errorsOnly |-> FALSE,
                       issuesOnly |-> FALSE, status |-> FALSE]
  /\ exitStatus = NotExited

\* findRepositoryRoot has not been called
RootIdle ==
  /\ startPath = <<>>
  /\ currentPath = <<>>
  /\ gitDirectories = {}
  /\ repoPath = <<>>
  /\ errorOutput = ""
  /\ rpc = "idle"

\* a file that does not exist, a file that has been opened for writing and
\* holds nothing yet, and a file with its content: a process id, or 1 for
\* the JSON text of a configuration
Absent == [exists |-> FALSE, content |-> 0]
Empty == [exists |-> TRUE, content |-> 0]
Written(data) == [exists |-> TRUE, content |-> data]

\* no invocation of the outpost command has been made
OutpostIdle ==
  /\ pidFile = Absent
  /\ configFile = Absent
  /\ alive = {}
  /\ spawned = 0
  /\ invocations = <<>>

\* none of the commands of parts 5 to 10 runs
CommandsIdle ==
  /\ StampIdle /\ UntrackedIdle /\ ValidateAllIdle /\ RootIdle
  /\ OutpostIdle

\* the parser runs on its own: no caller is active and the store is empty
CallersIdle ==
  /\ CreationIdle /\ store = <<>> /\ ValidationIdle /\ CoverageIdle
  /\ CommandsIdle

(***************************************************************************)
(* JavaScript string primitives                                            *)
(***************************************************************************)

\* The character U+0060 (backtick): the TLA+ lexer accepts no string literal
\* holding it, so it is the one character that is written as a name.
Backtick == "<backtick>"

\* a string used in a condition: '' and undefined are falsy
Truthy(s) == s # <<>>

\* \s of a regular expression and the characters String.prototype.trim removes
IsWhitespace(c) == c \in {" ", "\t"}

\* String.prototype.startsWith
StartsWith(s, prefix) ==
  /\ Len(s) >= Len(prefix)
  /\ SubSeq(s, 1, Len(prefix)) = prefix

\* String.prototype.substring(n): the string without its first n characters
Substring(s, n) == SubSeq(s, n + 1, Len(s))

RECURSIVE TrimStart(_)
TrimStart(s) ==
  IF s # <<>> /\ IsWhitespace(Head(s)) THEN TrimStart(Tail(s)) ELSE s

RECURSIVE TrimEnd(_)
TrimEnd(s) ==
  IF s # <<>> /\ IsWhitespace(s[Len(s)])
  THEN TrimEnd(SubSeq(s, 1, Len(s) - 1))
  ELSE s

\* String.prototype.trim
Trim(s) == TrimEnd(TrimStart(s))

\* content.split('\n'): the texts between the newlines, always at least
\* one line, '' splits into ['']
Split(s) ==
  LET newlines == {k \in 1..Len(s) : s[k] = "\n"}
      count == Cardinality(newlines)
      position(j) ==
        IF j = 0 THEN 0
        ELSE IF j = count + 1 THEN Len(s) + 1
        ELSE CHOOSE k \in newlines :
               Cardinality({m \in newlines : m <= k}) = j
  IN [j \in 1..(count + 1) |->
        SubSeq(s, position(j - 1) + 1, position(j) - 1)]

\* Array.prototype.includes on an array of strings
Includes(arr, x) == \E k \in 1..Len(arr) : arr[k] = x

\* first index >= from at which character c occurs in s, 0 when there is none
RECURSIVE IndexOfFrom(_, _, _)
IndexOfFrom(s, c, from) ==
  IF from > Len(s) THEN 0
  ELSE IF s[from] = c THEN from
  ELSE IndexOfFrom(s, c, from + 1)

\* last index at which character c occurs in s, 0 when there is none
RECURSIVE LastIndexOfUpTo(_, _, _)
LastIndexOfUpTo(s, c, k) ==
  IF k = 0 THEN 0
  ELSE IF s[k] = c THEN k
  ELSE LastIndexOfUpTo(s, c, k - 1)

LastIndexOf(s, c) == LastIndexOfUpTo(s, c, Len(s))

UpperLetters == <<"A","B","C","D","E","F","G","H","I","J","K","L","M",
                  "N","O","P","Q","R","S","T","U","V","W","X","Y","Z">>
LowerLetters == <<"a","b","c","d","e","f","g","h","i","j","k","l","m",
                  "n","o","p","q","r","s","t","u","v","w","x","y","z">>
Digits == {"0","1","2","3","4","5","6","7","8","9"}

ToLowerChar(c) ==
  IF \E k \in 1..26 : UpperLetters[k] = c
  THEN LowerLetters[CHOOSE k \in 1..26 : UpperLetters[k] = c]
  ELSE c

\* case folding of the i flag
ToLower(s) == [k \in 1..Len(s) |-> ToLowerChar(s[k])]

(***************************************************************************)
(* The four file patterns (documentParser.ts lines 82-87)                  *)
(***************************************************************************)

\* the alternation (ts|tsx|js|jsx|mjs|cjs|json|yaml|yml|md|txt|css|scss|html)
Extensions ==
  { <<"t","s">>, <<"t","s","x">>, <<"j","s">>, <<"j","s","x">>,
    <<"m","j","s">>, <<"c","j","s">>, <<"j","s","o","n">>,
    <<"y","a","m","l">>, <<"y","m","l">>, <<"m","d">>, <<"t","x","t">>,
    <<"c","s","s">>, <<"s","c","s","s">>, <<"h","t","m","l">> }

\* The tail  X+ \. (ext)  of every pattern, matched against a text t whose
\* end is forced by the delimiter that follows it: X+ is greedy but one
\* character at least, no extension holds a '.', so the extension group is
\* what follows the last '.' of t.  The empty string when t does not match.
ExtensionGroup(t) ==
  LET d == LastIndexOf(t, ".")
      e == SubSeq(t, d + 1, Len(t))
  IN IF d >= 2 /\ ToLower(e) \in Extensions THEN e ELSE <<>>

\* exec found nothing: the while loop of line 91 ends
NoMatch == [found |-> FALSE, g1 |-> <<>>, g2 |-> <<>>, end |-> 0]

\* a match: capture groups 1 and 2, and lastIndex after it (1-based)
Match(group1, group2, lastIndex) ==
  [found |-> TRUE, g1 |-> group1, g2 |-> group2, end |-> lastIndex]

\* /`([^`]+\.(ext))`/gi from position from: the leftmost opening backtick
\* whose text up to the next backtick ends in an extension
RECURSIVE ExecBacktick(_, _)
ExecBacktick(s, from) ==
  IF from > Len(s) THEN NoMatch
  ELSE IF s[from] # Backtick THEN ExecBacktick(s, from + 1)
  ELSE LET q == IndexOfFrom(s, Backtick, from + 1)
           t == SubSeq(s, from + 1, q - 1)
       IN IF q = 0 THEN NoMatch
          ELSE IF ExtensionGroup(t) # <<>>
               THEN Match(t, ExtensionGroup(t), q + 1)
               ELSE ExecBacktick(s, from + 1)

\* /\*\*([^*]+\.(ext))\*\*/gi from position from
RECURSIVE ExecBold(_, _)
ExecBold(s, from) ==
  IF from + 1 > Len(s) THEN NoMatch
  ELSE IF ~(s[from] = "*" /\ s[from + 1] = "*") THEN ExecBold(s, from + 1)
  ELSE LET q == IndexOfFrom(s, "*", from + 2)
           t == SubSeq(s, from + 2, q - 1)
       IN IF q # 0 /\ q + 1 <= Len(s) /\ s[q + 1] = "*"
             /\ ExtensionGroup(t) # <<>>
          THEN Match(t, ExtensionGroup(t), q + 2)
          ELSE ExecBold(s, from + 1)

\* /\[([^\]]+)\]\(([^)]+\.(ext))\)/gi from position from: group 1 is the
\* label, group 2 the link target
RECURSIVE ExecLink(_, _)
ExecLink(s, from) ==
  IF from > Len(s) THEN NoMatch
  ELSE IF s[from] # "[" THEN ExecLink(s, from + 1)
  ELSE LET r == IndexOfFrom(s, "]", from + 1)
           q == IndexOfFrom(s, ")", r + 2)
           label == SubSeq(s, from + 1, r - 1)
           target == SubSeq(s, r + 2, q - 1)
       IN IF r >= from + 2 /\ r + 1 <= Len(s) /\ s[r + 1] = "(" /\ q # 0
             /\ ExtensionGroup(target) # <<>>
          THEN Match(label, target, q + 1)
          ELSE ExecLink(s, from + 1)

\* the class [a-zA-Z0-9_\-/.]
IsPathChar(c) ==
  \/ \E k \in 1..26 : c = UpperLetters[k] \/ c = LowerLetters[k]
  \/ c \in Digits
  \/ c \in {"_", "-", "/", "."}

\* end of the longest run of path characters starting at position k
RECURSIVE RunEnd(_, _)
RunEnd(s, k) ==
  IF k <= Len(s) /\ IsPathChar(s[k]) THEN RunEnd(s, k + 1) ELSE k - 1

\* /(?:^|\s)([a-zA-Z0-9_\-/.]+\.(ext))(?:\s|$)/gi from position from.  The
\* token starts at the start of the string or after one whitespace; every
\* character of an extension is a path character, so the token is the whole
\* run of path characters, and the run is followed by whitespace (consumed)
\* or by the end of the string.
BareAt(s, t) ==
  LET e == RunEnd(s, t)
      w == SubSeq(s, t, e)
  IN IF e >= t /\ ExtensionGroup(w) # <<>>
        /\ (e = Len(s) \/ IsWhitespace(s[e + 1]))
     THEN Match(w, ExtensionGroup(w), IF e = Len(s) THEN e + 1 ELSE e + 2)
     ELSE NoMatch

RECURSIVE ExecBare(_, _)
ExecBare(s, from) ==
  IF from > Len(s) THEN NoMatch
  ELSE IF from = 1 /\ BareAt(s, 1).found THEN BareAt(s, 1)
  ELSE IF IsWhitespace(s[from]) /\ BareAt(s, from + 1).found
       THEN BareAt(s, from + 1)
       ELSE ExecBare(s, from + 1)

\* filePatterns, in the order of the array
filePatterns == <<"backtick", "bold", "link", "bare">>

\* pattern.exec(line) with pattern.lastIndex = from - 1
Exec(pattern, s, from) ==
  CASE pattern = "backtick" -> ExecBacktick(s, from)
    [] pattern = "bold"     -> ExecBold(s, from)
    [] pattern = "link"     -> ExecLink(s, from)
    [] pattern = "bare"     -> ExecBare(s, from)

\* the successive results of `while ((match = pattern.exec(line)) !== null)`
RECURSIVE MatchesFrom(_, _, _)
MatchesFrom(pattern, s, from) ==
  LET m == Exec(pattern, s, from)
  IN IF m.found THEN <<m>> \o MatchesFrom(pattern, s, m.end) ELSE <<>>

Matches(pattern, s) == MatchesFrom(pattern, s, 1)

(***************************************************************************)
(* extractStructureFromMarkdown (documentParser.ts lines 22-140)           *)
(***************************************************************************)

\* the placeholder title of line 27, also the fallback of line 134
CodebaseView == <<"C","o","d","e","b","a","s","e"," ","V","i","e","w">>

\* the fallback description of line 135
DefaultDescription == <<"C","o","d","e","b","a","s","e"," ","v","i","e","w"," ","e","x","t","r","a","c","t","e","d"," ","f","r","o","m"," ","d","o","c","u","m","e","n","t","a","t","i","o","n">>

\* the number of columns of the automatic grid (lines 58, 59 and 131)
GridCols == 3

\* path.join(repositoryPath, cleanPath): the two parts joined by '/', runs
\* of '/' collapsed ('.' and '..' segments do not occur in the documents
\* explored here)
RECURSIVE CollapseSlashes(_)
CollapseSlashes(p) ==
  IF Len(p) < 2 THEN p
  ELSE IF p[1] = "/" /\ p[2] = "/" THEN CollapseSlashes(Tail(p))
  ELSE <<p[1]>> \o CollapseSlashes(Tail(p))

PathJoin(root, p) == CollapseSlashes(root \o <<"/">> \o p)

\* fs.existsSync against the files and directories of the disk
ExistsSync(d, fullPath) == fullPath \in d

\* line 93 with the capture groups taken in the other order
FilePathLabelFirst(m) == IF Truthy(m.g1) THEN m.g1 ELSE m.g2

\* line 93: const filePath = match[2] || match[1]
FilePath(m) == IF Truthy(m.g2) THEN m.g2 ELSE m.g1

\* line 94: the candidate is kept when it is not a URL
NotUrl(filePath) ==
  /\ Truthy(filePath)
  /\ ~StartsWith(filePath, <<"h","t","t","p">>)
  /\ ~StartsWith(filePath, <<"/","/">>)

\* lines 98-104 left out: nothing is checked against the disk
NoExistenceCheck(repo, d, cleanPath) == TRUE

\* lines 98-104: with a repository path, a path that does not exist is skipped
PassesExistenceCheck(repo, d, cleanPath) ==
  Truthy(repo) => ExistsSync(d, PathJoin(repo, cleanPath))

\* lines 93-110 without the test of line 107: every accepted path is pushed
AddMatchNoDedup(files, m, repo, d) ==
  LET filePath == FilePath(m)
      cleanPath == Trim(filePath)
  IN IF NotUrl(filePath) /\ PassesExistenceCheck(repo, d, cleanPath)
     THEN Append(files, cleanPath)
     ELSE files

\* lines 93-110: the body of the while loop for one match
AddMatch(files, m, repo, d) ==
  LET filePath == FilePath(m)
      cleanPath == Trim(filePath)
  IN IF NotUrl(filePath) /\ PassesExistenceCheck(repo, d, cleanPath)
        /\ ~Includes(files, cleanPath)
     THEN Append(files, cleanPath)
     ELSE files

RECURSIVE AddMatches(_, _, _, _)
AddMatches(files, ms, repo, d) ==
  IF ms = <<>> THEN files
  ELSE AddMatches(AddMatch(files, Head(ms), repo, d), Tail(ms), repo, d)

\* lines 89-112: every pattern in turn over the whole line
RECURSIVE ScanPatterns(_, _, _, _, _)
ScanPatterns(files, patterns, line, repo, d) ==
  IF patterns = <<>> THEN files
  ELSE ScanPatterns(AddMatches(files, Matches(Head(patterns), line), repo, d),
                    Tail(patterns), line, repo, d)

ScanLine(files, line, repo, d) ==
  ScanPatterns(files, filePatterns, line, repo, d)

\* lines 58-59 with the column taken modulo one more than the grid width
GridCoordinatesWide(idx) == <<idx \div GridCols, idx % (GridCols + 1)>>

\* lines 58-59 and 117-118: row and column of the section numbered idx
GridCoordinates(idx) == <<idx \div GridCols, idx % GridCols>>

\* lines 57 and 116 without the test on the number of files
ShouldSaveNamed(section, files) == Truthy(section)

\* lines 57 and 116: a section is saved when it is named and has files
ShouldSave(section, files) == Truthy(section) /\ Len(files) > 0

\* lines 63-67 and 122-126: referenceGroups[currentSection] = {...}
SaveSection(groups, section, files, idx) ==
  (section :> [coordinates |-> GridCoordinates(idx),
               files |-> files,
               priority |-> 0]) @@ groups

Max(a, b) == IF a >= b THEN a ELSE b
Min(a, b) == IF a <= b THEN a ELSE b

\* line 71: line.replace(/^#+\s*/, '').trim()
RECURSIVE StripLeading(_, _)
StripLeading(s, chars) ==
  IF s # <<>> /\ Head(s) \in chars THEN StripLeading(Tail(s), chars) ELSE s

HeadingText(line) == Trim(StripLeading(StripLeading(line, {"#"}), {" ", "\t"}))

\* line 37: const line = lines[i]?.trim() || ''
CurrentLine == Trim(lines[i + 1])

\* line 40
IsTitleLine(line) == StartsWith(line, <<"#"," ">>) /\ name = CodebaseView

\* line 55
IsSectionHeading(line) ==
  StartsWith(line, <<"#","#"," ">>) \/ StartsWith(line, <<"#","#","#"," ">>)

\* lines 47-52: the first paragraph after the title
DescriptionStep(line) ==
  IF inDescription /\ Truthy(line) /\ ~StartsWith(line, <<"#">>)
  THEN /\ description' = (IF Truthy(description)
                          THEN description \o <<" ">> ELSE description) \o line
       /\ UNCHANGED inDescription
  ELSE IF inDescription /\ (StartsWith(line, <<"#">>) \/ line = <<>>)
  THEN /\ inDescription' = FALSE
       /\ UNCHANGED description
  ELSE UNCHANGED <<description, inDescription>>

\* the value of result before the function has returned
NoResult == [name |-> <<>>, description |-> <<>>, referenceGroups |-> <<>>,
             rows |-> 0, cols |-> 0]

\* lines 23-34: the state on entry to the for loop
Locals ==
  /\ pc = "loop"
  /\ lines = Split(content)
  /\ i = 0
  /\ name = CodebaseView
  /\ description = <<>>
  /\ inDescription = FALSE
  /\ currentSection = <<>>
  /\ currentFiles = <<>>
  /\ sectionIndex = 0
  /\ maxRow = 0
  /\ maxCol = 0
  /\ referenceGroups = <<>>
  /\ result = NoResult

\* lines 40-44: the title line
TitleLine ==
  /\ pc = "loop"
  /\ i < Len(lines)
  /\ IsTitleLine(CurrentLine)
  /\ name' = Trim(Substring(CurrentLine, 2))
  /\ inDescription' = TRUE
  /\ i' = i + 1
  /\ UNCHANGED <<content, repositoryPath, disk, pc, lines, description,
                 currentSection, currentFiles, sectionIndex, maxRow, maxCol,
                 referenceGroups, result>>
  /\ UNCHANGED callerVars

\* lines 47-74: a level-2 or level-3 heading closes the section before it
SectionHeading ==
  /\ pc = "loop"
  /\ i < Len(lines)
  /\ ~IsTitleLine(CurrentLine)
  /\ IsSectionHeading(CurrentLine)
  /\ DescriptionStep(CurrentLine)
  /\ IF ShouldSave(currentSection, currentFiles)
     THEN /\ maxRow' = Max(maxRow, GridCoordinates(sectionIndex)[1])
          /\ maxCol' = Max(maxCol, GridCoordinates(sectionIndex)[2])
          /\ referenceGroups' = SaveSection(referenceGroups, currentSection,
                                            currentFiles, sectionIndex)
          /\ sectionIndex' = sectionIndex + 1
     ELSE UNCHANGED <<maxRow, maxCol, referenceGroups, sectionIndex>>
  /\ currentSection' = HeadingText(CurrentLine)
  /\ currentFiles' = <<>>
  /\ i' = i + 1
  /\ UNCHANGED <<content, repositoryPath, disk, pc, lines, name, result>>
  /\ UNCHANGED callerVars

\* lines 47-52 and 76-112: any other line is scanned for file references
BodyLine ==
  /\ pc = "loop"
  /\ i < Len(lines)
  /\ ~IsTitleLine(CurrentLine)
  /\ ~IsSectionHeading(CurrentLine)
  /\ DescriptionStep(CurrentLine)
  /\ currentFiles' = ScanLine(currentFiles, CurrentLine, repositoryPath, disk)
  /\ i' = i + 1
  /\ UNCHANGED <<content, repositoryPath, disk, pc, lines, name,
                 currentSection, sectionIndex, maxRow, maxCol,
                 referenceGroups, result>>
  /\ UNCHANGED callerVars

\* lines 115-139: the last section, the grid size and the returned value
Finish ==
  /\ pc = "loop"
  /\ i = Len(lines)
  /\ LET save == ShouldSave(currentSection, currentFiles)
         row == GridCoordinates(sectionIndex)[1]
         col == GridCoordinates(sectionIndex)[2]
         finalMaxRow == IF save THEN Max(maxRow, row) ELSE maxRow
         finalMaxCol == IF save THEN Max(maxCol, col) ELSE maxCol
         groups == IF save
                   THEN SaveSection(referenceGroups, currentSection,
                                    currentFiles, sectionIndex)
                   ELSE referenceGroups
         hasGroups == Cardinality(DOMAIN groups) > 0
     IN /\ maxRow' = finalMaxRow
        /\ maxCol' = finalMaxCol
        /\ referenceGroups' = groups
        /\ result' =
             [name |-> IF Truthy(name) THEN name ELSE CodebaseView,
              description |-> IF Truthy(description) THEN description
                              ELSE DefaultDescription,
              referenceGroups |-> groups,
              rows |-> IF hasGroups THEN finalMaxRow + 1 ELSE 1,
              cols |-> IF hasGroups THEN Min(finalMaxCol + 1, GridCols)
                       ELSE 1]
  /\ pc' = "done"
  /\ UNCHANGED <<content, repositoryPath, disk, lines, i, name, description,
                 inDescription, currentSection, currentFiles, sectionIndex>>
  /\ UNCHANGED callerVars

(***************************************************************************)
(* Inputs: documents, repository path and disk                             *)
(***************************************************************************)

\* the lines of the scenario of the specification, section 8
LineMyView ==
  <<"#"," ","M","y"," ","V","i","e","w">>

LineIntro ==
  <<"I","n","t","r","o">>

LineSectionA ==
  <<"#","#"," ","S","e","c","t","i","o","n"," ","A">>

LineSeeAB ==
  <<"S","e","e"," ",Backtick,"s","r","c","/","a",".","t","s",Backtick," ",
    "a","n","d"," ",Backtick,"s","r","c","/","b",".","t","s",Backtick,".">>

LineSectionB ==
  <<"#","#"," ","S","e","c","t","i","o","n"," ","B">>

LineNothing ==
  <<"N","o","t","h","i","n","g"," ","h","e","r","e",".">>

\* titles: an ordinary one, the placeholder text itself, another one
LineTitle ==
  <<"#"," ","T">>

LinePlaceholderTitle ==
  <<"#"," ","C","o","d","e","b","a","s","e"," ","V","i","e","w">>

LineOtherTitle ==
  <<"#"," ","U">>

\* section headings of level 2 and 3
LineHeadingA ==
  <<"#","#"," ","A">>

LineHeadingB ==
  <<"#","#","#"," ","B">>

\* lines without a file reference
LineEmpty ==
  <<>>

LineText ==
  <<"t","e","x","t">>

\* one reference of each of the four forms
LineBacktick ==
  <<Backtick,"a",".","t","s",Backtick>>

LineBold ==
  <<"*","*","b",".","j","s","*","*">>

LineLink ==
  <<"[","c",".","t","s","]","(","d",".","m","d",")">>

LineBare ==
  <<"s","e","e"," ","e",".","m","d">>

\* links to URLs, the second with a blank after the parenthesis
LineUrl ==
  <<"[","x","]","(","h","t","t","p",":","/","/","h","/","f",".","m","d",
    ")">>

LineUrlBlank ==
  <<"[","x","]","("," ","h","t","t","p",":","/","/","h","/","f",".","m",
    "d",")">>

LineUrlSlashes ==
  <<"[","x","]","(","/","/","h","/","f",".","m","d",")">>

\* a link to a file that is not on the disk, then one to a file that is
LineTwoLinks ==
  <<"[","x","]","(","n",".","m","d",")"," ","[","c",".","t","s","]","(",
    "d",".","m","d",")">>

\* a link, then a bold span: the second pattern finds the later mention
LineLinkThenBold ==
  <<"[","x","]","(","d",".","m","d",")"," ","*","*","b",".","j","s","*","*">>

\* the repository root and the absolute paths that exist under it
RepoRoot ==
  <<"/","r","e","p","o">>

PathSrcA ==
  <<"/","r","e","p","o","/","s","r","c","/","a",".","t","s">>

PathA ==
  <<"/","r","e","p","o","/","a",".","t","s">>

PathB ==
  <<"/","r","e","p","o","/","b",".","j","s">>

PathD ==
  <<"/","r","e","p","o","/","d",".","m","d">>

PathE ==
  <<"/","r","e","p","o","/","e",".","m","d">>

PathTs ==
  <<"/","r","e","p","o","/","t","s">>

\* src/b.ts and n.md are on neither disk; the second disk also holds an
\* entry named ts at the root of the repository
DiskPlain == {PathSrcA, PathA, PathB, PathD, PathE}
DiskWithTs == DiskPlain \cup {PathTs}

\* (repositoryPath, disk): no repository path, or a path and one of the disks
Environments ==
  {<<<<>>, {}>>, <<RepoRoot, DiskPlain>>, <<RepoRoot, DiskWithTs>>}

\* lines.join('\n')
RECURSIVE JoinLines(_)
JoinLines(ls) ==
  IF Len(ls) = 0 THEN <<>>
  ELSE IF Len(ls) = 1 THEN ls[1]
  ELSE ls[1] \o <<"\n">> \o JoinLines(Tail(ls))

RECURSIVE Flatten(_)
Flatten(ss) == IF ss = <<>> THEN <<>> ELSE Head(ss) \o Flatten(Tail(ss))

\* all sequences over S of length 1..n
SeqsUpTo(S, n) == UNION {[1..k -> S] : k \in 1..n}

\* the scenario of the specification, section 8
DocScenario == <<LineMyView, LineIntro, LineSectionA, LineSeeAB,
                 LineSectionB, LineNothing>>

\* bounds of the document families
MaxHeadLines == 3
MaxSections == 4
MaxBodyLines == 2

\* title and description: up to MaxHeadLines lines
HeadPool == {LineTitle, LinePlaceholderTitle, LineOtherTitle, LineEmpty,
             LineText, LineHeadingA, LineLink}
HeadDocs == SeqsUpTo(HeadPool, MaxHeadLines)

\* grid: up to MaxSections sections of one heading and one line
SectionPool == {<<h, b>> : h \in {LineHeadingA, LineHeadingB},
                           b \in {LineText, LineBacktick, LineLink}}
SectionDocs == {Flatten(d) : d \in SeqsUpTo(SectionPool, MaxSections)}

\* references: one section of up to MaxBodyLines lines
BodyPool == {LineText, LineBacktick, LineBold, LineLink, LineBare, LineUrl,
             LineUrlBlank, LineUrlSlashes, LineTwoLinks, LineLinkThenBold}
ReferenceDocs == {<<LineHeadingA>>} \cup
                 {<<LineHeadingA>> \o d : d \in SeqsUpTo(BodyPool, MaxBodyLines)}

\* seven sections '## 1' .. '## 7', each with one reference
NumberedHeading(k) == <<"#", "#", " ", CHOOSE c \in Digits : c = ToString(k)>>
SevenSectionDocs ==
  {Flatten([k \in 1..7 |-> <<NumberedHeading(k), b[k]>>]) :
     b \in [1..7 -> {LineBacktick, LineLink}]}

Documents ==
  {DocScenario} \cup HeadDocs \cup SectionDocs \cup ReferenceDocs
    \cup SevenSectionDocs

(***************************************************************************)
(* Specification of the parser                                             *)
(***************************************************************************)

Init ==
  /\ content \in {JoinLines(d) : d \in Documents}
  /\ \E env \in Environments : repositoryPath = env[1] /\ disk = env[2]
  /\ Locals
  /\ CallersIdle

Next == TitleLine \/ SectionHeading \/ BodyLine \/ Finish

Spec == Init /\ [][Next]_vars

(***************************************************************************)
(* Readings of a document used to state the properties                     *)
(***************************************************************************)

\* the line the last step of the loop has processed (i > 0)
LastLine == Trim(lines[i])

\* the last step scanned a line of a named section for references
ScannedInSection ==
  /\ i > 0
  /\ Truthy(currentSection)
  /\ ~StartsWith(LastLine, <<"#"," ">>)
  /\ ~IsSectionHeading(LastLine)

\* the matches of one pattern on a line, as a set
MatchSet(pattern, line) ==
  {Matches(pattern, line)[k] : k \in 1..Len(Matches(pattern, line))}

\* a path as a reader of the document sees it: the text between the
\* delimiters for the three plain forms, the target for a link
MentionedPaths(line) ==
  {Trim(m.g1) : m \in MatchSet("backtick", line) \cup MatchSet("bold", line)
                        \cup MatchSet("bare", line)}
    \cup {Trim(m.g2) : m \in MatchSet("link", line)}

\* a URL as the specification defines it
LooksLikeUrl(p) ==
  StartsWith(p, <<"h","t","t","p">>) \/ StartsWith(p, <<"/","/">>)

\* the mentioned path survives the optional existence filter
OnDiskIfFiltered(p) ==
  Truthy(repositoryPath) => PathJoin(repositoryPath, p) \in disk

\* positions of the section headings of the document
HeadingPositions == {k \in 1..Len(lines) : IsSectionHeading(Trim(lines[k]))}

\* the lines of the section whose heading is at position h
SectionBody(h) ==
  {k \in (h + 1)..Len(lines) :
     \A j \in (h + 1)..k : ~IsSectionHeading(Trim(lines[j]))}

\* all files of all groups of a referenceGroups value
FilesOf(groups) ==
  UNION {{groups[s].files[k] : k \in 1..Len(groups[s].files)} :
           s \in DOMAIN groups}

SetMax(S) == CHOOSE x \in S : \A y \in S : y <= x

PathSrcARel == <<"s","r","c","/","a",".","t","s">>
PathSrcBRel == <<"s","r","c","/","b",".","t","s">>
LabelSectionA == <<"S","e","c","t","i","o","n"," ","A">>

(***************************************************************************)
(* Properties of extractStructureFromMarkdown                              *)
(***************************************************************************)

\* C1: for the scenario document the parser returns exactly one group,
\* "Section A", with files [src/a.ts, src/b.ts] without a repository path and
\* [src/a.ts] with a repository in which only src/a.ts exists.
C1_Scenario ==
  (pc = "done" /\ content = JoinLines(DocScenario)) =>
    /\ DOMAIN result.referenceGroups = {LabelSectionA}
    /\ result.referenceGroups[LabelSectionA].files =
         IF Truthy(repositoryPath) THEN <<PathSrcARel>>
         ELSE <<PathSrcARel, PathSrcBRel>>

\* C2: after a line of a section is scanned, every path it mentions as an
\* inline-code span, a bold span or a bare token (that is no URL and passes
\* the existence filter) is among the files of the section, in full.
C2_FullPathAdded ==
  ScannedInSection =>
    \A m \in MatchSet("backtick", LastLine) \cup MatchSet("bold", LastLine)
               \cup MatchSet("bare", LastLine) :
      (~LooksLikeUrl(Trim(m.g1)) /\ OnDiskIfFiltered(Trim(m.g1)))
        => Includes(currentFiles, Trim(m.g1))

\* C3: after a line of a section is scanned, the target of every markdown
\* link on it (that is no URL and passes the existence filter) is among the
\* files of the section, and the label of a link is among them only if the
\* section also mentions that text as a path in its own right.
C3_LinkTarget ==
  ScannedInSection =>
    \A m \in MatchSet("link", LastLine) :
      /\ (~LooksLikeUrl(Trim(m.g2)) /\ OnDiskIfFiltered(Trim(m.g2)))
           => Includes(currentFiles, Trim(m.g2))
      /\ Includes(currentFiles, Trim(m.g1))
           => \E k \in 1..i :
                /\ \A j \in k..i : ~IsSectionHeading(Trim(lines[j]))
                /\ \/ Trim(m.g1) \in MentionedPaths(Trim(lines[k]))
                   \/ \E p \in {"backtick", "bold", "bare"} :
                        \E o \in MatchSet(p, Trim(lines[k])) :
                          Trim(m.g1) = Trim(o.g2)

\* C3 witness: a link whose label looks like a file path was scanned; its
\* target is among the files, its label is not
C3_Witness ==
  /\ ScannedInSection
  /\ \E m \in MatchSet("link", LastLine) :
       /\ ExtensionGroup(m.g1) # <<>>
       /\ Includes(currentFiles, Trim(m.g2))
       /\ ~Includes(currentFiles, Trim(m.g1))

\* C4: a document with exactly 7 section headings, each section mentioning
\* at least one file (that is no URL and passes the existence filter), yields
\* 7 groups, the group of the k-th heading (from 0) at [k div 3, k mod 3],
\* and rows = 3, cols = 3.
C4_SevenSections ==
  (/\ pc = "done"
   /\ Cardinality(HeadingPositions) = 7
   /\ \A h \in HeadingPositions :
        \E k \in SectionBody(h) : \E p \in MentionedPaths(Trim(lines[k])) :
          ~LooksLikeUrl(p) /\ OnDiskIfFiltered(p))
  => /\ result.rows = 3
     /\ result.cols = 3
     /\ Cardinality(DOMAIN result.referenceGroups) = 7
     /\ \A h \in HeadingPositions :
          LET k == Cardinality({g \in HeadingPositions : g < h})
              label == HeadingText(Trim(lines[h]))
          IN /\ label \in DOMAIN result.referenceGroups
             /\ result.referenceGroups[label].coordinates
                  = <<k \div 3, k % 3>>

\* C5: in the returned structure no two groups share their coordinates and
\* every group lies inside the returned grid: 0 <= row < rows, 0 <= col < cols.
C5_CoordinatesDistinctInGrid ==
  pc = "done" =>
    LET groups == result.referenceGroups
    IN /\ \A s1, s2 \in DOMAIN groups :
            s1 # s2 => groups[s1].coordinates # groups[s2].coordinates
       /\ \A s \in DOMAIN groups :
            /\ 0 <= groups[s].coordinates[1]
            /\ groups[s].coordinates[1] < result.rows
            /\ 0 <= groups[s].coordinates[2]
            /\ groups[s].coordinates[2] < result.cols

\* C5 witness: a returned structure whose groups fill more than one row
C5_Witness ==
  /\ pc = "done"
  /\ Cardinality(DOMAIN result.referenceGroups) > GridCols
  /\ result.rows > 1

\* C6: every group ever stored has at least one file; while the section
\* being read has no file, no step stores a group or advances the grid
\* index; and a section that is stored takes the coordinates of the current
\* grid index.
C6_EmptySectionNotEmitted ==
  /\ [](\A s \in DOMAIN referenceGroups : Len(referenceGroups[s].files) > 0)
  /\ [][Len(currentFiles) = 0
          => (referenceGroups' = referenceGroups
                /\ sectionIndex' = sectionIndex)]_vars
  /\ [][referenceGroups' # referenceGroups
          => referenceGroups'[currentSection].coordinates
               = <<sectionIndex \div 3, sectionIndex % 3>>]_vars

\* C6 witness: a section without files was passed over and the section
\* after it was returned at the first cell of the grid
C6_Witness ==
  /\ pc = "done"
  /\ \E h1, h2 \in HeadingPositions :
       /\ h1 < h2
       /\ HeadingText(Trim(lines[h1])) \notin DOMAIN result.referenceGroups
       /\ HeadingText(Trim(lines[h2])) \in DOMAIN result.referenceGroups
       /\ result.referenceGroups[HeadingText(Trim(lines[h2]))].coordinates
            = <<0, 0>>

\* C7: rows = maxRow + 1 and cols = min(maxCol + 1, 3), the maxima taken over
\* the returned groups; without a group, rows = cols = 1.
C7_GridSizeOverGroups ==
  pc = "done" =>
    LET groups == result.referenceGroups
    IN IF DOMAIN groups = {}
       THEN result.rows = 1 /\ result.cols = 1
       ELSE /\ result.rows
                 = SetMax({groups[s].coordinates[1] : s \in DOMAIN groups}) + 1
            /\ result.cols
                 = Min(SetMax({groups[s].coordinates[2] : s \in DOMAIN groups})
                         + 1, 3)

\* C8: the returned name is the trimmed text of the first line that starts
\* with '# ', whatever follows it, and "Codebase View" without such a line.
C8_NameIsFirstTitle ==
  pc = "done" =>
    LET titles == {k \in 1..Len(lines) :
                     StartsWith(Trim(lines[k]), <<"#"," ">>)}
    IN IF titles = {}
       THEN result.name = CodebaseView
       ELSE result.name
              = Trim(Substring(Trim(lines[CHOOSE k \in titles :
                                            \A j \in titles : k <= j]), 2))

\* C9: no file of a returned group starts with 'http' or with '//'.
C9_NoUrlInGroups ==
  pc = "done" => \A f \in FilesOf(result.referenceGroups) : ~LooksLikeUrl(f)

\* C10: with a repository path, every file of every group, stored or being
\* collected, exists on the disk under the repository; and a candidate that
\* does not exist leaves the others alone: every candidate of the scanned
\* line that is accepted and exists is among the files of the section.
C10_FilesExist ==
  Truthy(repositoryPath) =>
    /\ \A f \in FilesOf(referenceGroups)
                  \cup {currentFiles[k] : k \in 1..Len(currentFiles)} :
         PathJoin(repositoryPath, f) \in disk
    /\ pc = "done" =>
         \A f \in FilesOf(result.referenceGroups) :
           PathJoin(repositoryPath, f) \in disk
    /\ ScannedInSection =>
         \A p \in {"backtick", "bold", "link", "bare"} :
           \A m \in MatchSet(p, LastLine) :
             (NotUrl(FilePath(m))
                /\ PathJoin(repositoryPath, Trim(FilePath(m))) \in disk)
               => Includes(currentFiles, Trim(FilePath(m)))

\* C10 witness: with a repository path, a line was scanned on which a link
\* to a missing file comes before a link to an existing one; only the
\* second is among the files
C10_Witness ==
  /\ Truthy(repositoryPath)
  /\ ScannedInSection
  /\ \E k1, k2 \in 1..Len(Matches("link", LastLine)) :
       LET missing == Trim(Matches("link", LastLine)[k1].g2)
           present == Trim(Matches("link", LastLine)[k2].g2)
       IN /\ k1 < k2
          /\ PathJoin(repositoryPath, missing) \notin disk
          /\ ~Includes(currentFiles, missing)
          /\ Includes(currentFiles, present)

\* the line at position k was taken as the title (line 40): it starts with
\* '# ' and no earlier title has replaced the placeholder name
TakenAsTitle(k) ==
  /\ StartsWith(Trim(lines[k]), <<"#"," ">>)
  /\ \A j \in 1..(k - 1) :
       StartsWith(Trim(lines[j]), <<"#"," ">>)
         => Trim(Substring(Trim(lines[j]), 2)) = CodebaseView

\* position of the heading of the section being read after i lines, 0 before
\* the first heading
CurrentHeading ==
  IF \E k \in 1..i : IsSectionHeading(Trim(lines[k]))
  THEN CHOOSE k \in 1..i :
         /\ IsSectionHeading(Trim(lines[k]))
         /\ \A j \in (k + 1)..i : ~IsSectionHeading(Trim(lines[j]))
  ELSE 0

\* the candidates of one line that are accepted (no URL, on the disk when a
\* repository path is given), in the order the scan finds them: pattern by
\* pattern, left to right within one pattern
RECURSIVE AcceptedOf(_)
AcceptedOf(ms) ==
  IF ms = <<>> THEN <<>>
  ELSE (IF NotUrl(FilePath(Head(ms)))
           /\ PassesExistenceCheck(repositoryPath, disk,
                                   Trim(FilePath(Head(ms))))
        THEN <<Trim(FilePath(Head(ms)))>> ELSE <<>>) \o AcceptedOf(Tail(ms))

AcceptedInScanOrder(line) ==
  AcceptedOf(Matches("backtick", line) \o Matches("bold", line)
               \o Matches("link", line) \o Matches("bare", line))

\* the accepted candidates of the scanned lines from..to, line by line
RECURSIVE AcceptedInLines(_, _)
AcceptedInLines(from, to) ==
  IF from > to THEN <<>>
  ELSE (IF TakenAsTitle(from) THEN <<>>
        ELSE AcceptedInScanOrder(Trim(lines[from])))
         \o AcceptedInLines(from + 1, to)

\* a sequence without the later occurrences of its elements
RECURSIVE FirstOccurrences(_)
FirstOccurrences(s) ==
  IF s = <<>> THEN <<>>
  ELSE LET init == FirstOccurrences(SubSeq(s, 1, Len(s) - 1))
       IN IF Includes(init, s[Len(s)]) THEN init
          ELSE Append(init, s[Len(s)])

NoDuplicates(s) == \A a, b \in 1..Len(s) : a # b => s[a] # s[b]

\* where in the section being read the path f is mentioned: line and end of
\* the match, as one number (no line is 1000 characters long)
MentionPositions(f) ==
  UNION {{k * 1000 + m.end : m \in {o \in MatchSet(p, Trim(lines[k])) :
                                      Trim(FilePath(o)) = f}} :
           k \in {j \in (CurrentHeading + 1)..i : ~TakenAsTitle(j)},
           p \in {"backtick", "bold", "link", "bare"}}

SetMin(S) == CHOOSE x \in S : \A y \in S : x <= y

\* C11 as stated: the files of the section hold no path twice and stand in
\* the order of their first mention in the text of the section.
C11_FirstMentionOrder ==
  (pc = "loop" /\ i > 0 /\ Truthy(currentSection)) =>
    /\ NoDuplicates(currentFiles)
    /\ \A a, b \in 1..Len(currentFiles) :
         a < b => SetMin(MentionPositions(currentFiles[a]))
                    < SetMin(MentionPositions(currentFiles[b]))

\* C11 amended: no list of files holds a path twice; the files of the
\* section being read are the accepted candidates in the order the scan
\* first finds them (line by line, pattern by pattern on a line, left to
\* right within a pattern); and a section is stored with exactly that list.
C11_ScanOrderNoDuplicates ==
  /\ [](/\ NoDuplicates(currentFiles)
        /\ \A s \in DOMAIN referenceGroups :
             NoDuplicates(referenceGroups[s].files)
        /\ currentFiles
             = FirstOccurrences(AcceptedInLines(CurrentHeading + 1, i)))
  /\ [][referenceGroups' # referenceGroups
          => referenceGroups'[currentSection].files = currentFiles]_vars

\* C11 witness: a section was read in which a path is mentioned on two
\* lines and a pattern of lower rank found the earlier mention of a line;
\* the files hold each path once
C11_Witness ==
  /\ pc = "loop"
  /\ Truthy(currentSection)
  /\ Len(currentFiles) >= 2
  /\ Len(AcceptedInLines(CurrentHeading + 1, i)) > Len(currentFiles)
  /\ \E a, b \in 1..Len(currentFiles) :
       /\ a < b
       /\ SetMin(MentionPositions(currentFiles[a]))
            > SetMin(MentionPositions(currentFiles[b]))

(***************************************************************************)
(* Part 2: src/utils/viewCreation.ts                                       *)
(***************************************************************************)

EndsWith(s, suffix) ==
  Len(s) >= Len(suffix)
    /\ SubSeq(s, Len(s) - Len(suffix) + 1, Len(s)) = suffix

ToUpperChar(c) ==
  IF \E k \in 1..26 : LowerLetters[k] = c
  THEN UpperLetters[CHOOSE k \in 1..26 : LowerLetters[k] = c]
  ELSE c

IsLetter(c) == \E k \in 1..26 : LowerLetters[k] = c \/ UpperLetters[k] = c

\* \w of a JavaScript regular expression
IsWordChar(c) == IsLetter(c) \/ c \in Digits \/ c = "_"

\* path.basename, path.extname and path.dirname of node:path (POSIX), for
\* paths without a trailing slash and without doubled slashes
Basename(p) == Substring(p, LastIndexOf(p, "/"))

Extname(p) ==
  LET base == Basename(p)
      dot == LastIndexOf(base, ".")
  IN IF dot <= 1 THEN <<>> ELSE Substring(base, dot - 1)

BasenameWithout(p, ext) ==
  LET base == Basename(p)
  IN IF Truthy(ext) /\ Len(base) > Len(ext) /\ EndsWith(base, ext)
     THEN SubSeq(base, 1, Len(base) - Len(ext))
     ELSE base

Dirname(p) ==
  LET slash == LastIndexOf(p, "/")
  IN IF slash = 0 THEN <<".">>
     ELSE IF slash = 1 THEN <<"/">>
     ELSE SubSeq(p, 1, slash - 1)

\* s.replace(/[chars]/g, ' ')
ReplaceWithSpace(s, chars) ==
  [k \in 1..Len(s) |-> IF s[k] \in chars THEN " " ELSE s[k]]

\* s.replace(/\b\w/g, l => l.toUpperCase()): the first character of every
\* run of word characters is put in upper case, the others are left alone
CapitalizeWords(s) ==
  [k \in 1..Len(s) |->
     IF IsWordChar(s[k]) /\ (k = 1 \/ ~IsWordChar(s[k - 1]))
     THEN ToUpperChar(s[k]) ELSE s[k]]

\* the same with the rest of every word put in lower case
CapitalizeWordsLowerRest(s) ==
  [k \in 1..Len(s) |->
     IF IsWordChar(s[k]) /\ (k = 1 \/ ~IsWordChar(s[k - 1]))
     THEN ToUpperChar(s[k]) ELSE ToLowerChar(s[k])]

\* lines 91-104
GenerateViewNameFromPath(filePath) ==
  LET fileName == BasenameWithout(filePath, Extname(filePath))
      dirName == Dirname(filePath)
  IN IF dirName = <<".">>
     THEN CapitalizeWords(ReplaceWithSpace(fileName, {"-", "_"}))
     ELSE LET formattedDir ==
                CapitalizeWords(ReplaceWithSpace(dirName, {"-", "_", "/"}))
              formattedFile ==
                CapitalizeWords(ReplaceWithSpace(fileName, {"-", "_"}))
          IN formattedDir \o <<" ", "-", " ">> \o formattedFile

\* generateViewIdFromName of the core library, as the data model describes
\* it: lower case, every run of characters that are neither letters nor
\* digits becomes one hyphen, hyphens at both ends are dropped
RECURSIVE Slug(_)
Slug(s) ==
  IF s = <<>> THEN <<>>
  ELSE LET c == ToLowerChar(Head(s))
           rest == Slug(Tail(s))
       IN IF IsLetter(c) \/ c \in Digits THEN <<c>> \o rest
          ELSE IF rest # <<>> /\ Head(rest) = "-" THEN rest
          ELSE <<"-">> \o rest

RECURSIVE StripTrailing(_, _)
StripTrailing(s, chars) ==
  IF s # <<>> /\ s[Len(s)] \in chars
  THEN StripTrailing(SubSeq(s, 1, Len(s) - 1), chars) ELSE s

GenerateViewIdFromName(viewName) ==
  StripTrailing(StripLeading(Slug(viewName), {"-"}), {"-"})

\* MemoryPalace.validateRelativePath of the core library: the path relative
\* to the repository, or an exception when the file is not inside it
InsideRepository(repo, fullPath) ==
  StartsWith(fullPath, repo \o <<"/">>) /\ Len(fullPath) > Len(repo) + 1

ValidateRelativePath(repo, fullPath) == Substring(fullPath, Len(repo) + 1)

\* a set as a sequence, in some order
RECURSIVE SetToSeq(_)
SetToSeq(S) ==
  IF S = {} THEN <<>>
  ELSE LET x == CHOOSE y \in S : TRUE IN <<x>> \o SetToSeq(S \ {x})

\* the checks of the view validator of the core library, specification
\* section 4.4: required fields, coordinate bounds, coordinate uniqueness,
\* file existence; every check yields issues of severity error
ViewIssues(view, repo, d) ==
  LET groups == view.referenceGroups
      labels == DOMAIN groups
  IN {[severity |-> "error", check |-> "required", location |-> <<>>] :
        x \in IF Truthy(view.name) THEN {} ELSE {1}}
     \cup
     {[severity |-> "error", check |-> "bounds", location |-> s] :
        s \in {g \in labels :
                 ~(/\ groups[g].coordinates[1] \in 0..(view.rows - 1)
                   /\ groups[g].coordinates[2] \in 0..(view.cols - 1))}}
     \cup
     {[severity |-> "error", check |-> "unique", location |-> s] :
        s \in {g \in labels :
                 \E h \in labels :
                   h # g /\ groups[h].coordinates = groups[g].coordinates}}
     \cup
     {[severity |-> "error", check |-> "file", location |-> f] :
        f \in {p \in {view.overviewPath}
                       \cup UNION {{groups[g].files[k] :
                                      k \in 1..Len(groups[g].files)} :
                                   g \in labels} :
                 ~ExistsSync(d, PathJoin(repo, p))}}

CountSeverity(issues, severity) ==
  Cardinality({k \in 1..Len(issues) : issues[k].severity = severity})

\* palace.validateView: isValid is true iff there is no issue of severity
\* error (specification section 4.4)
ValidateView(view, repo, d) ==
  LET issues == SetToSeq(ViewIssues(view, repo, d))
  IN [isValid |-> CountSeverity(issues, "error") = 0,
      issues |-> issues,
      validatedView |-> view,
      summary |-> [errors |-> CountSeverity(issues, "error"),
                   warnings |-> CountSeverity(issues, "warning"),
                   info |-> CountSeverity(issues, "info")]]

\* the documents of the repository: path as listed, and absolute path
PathReadme == <<"R","E","A","D","M","E",".","m","d">>
PathArchitecture == <<"d","o","c","s","/","a","r","c","h","i","t","e","c","t","u","r","e",".","m","d">>
PathGuide == <<"d","o","c","s","/","m","y","-","g","u","i","d","e","_","v","2",".","m","d">>
PathGone == <<"g","o","n","e",".","m","d">>
PathLocked == <<"l","o","c","k","e","d",".","m","d">>
PathElsewhere == <<"x",".","m","d">>
FullPathElsewhere == <<"/","o","t","h","e","r","/","x",".","m","d">>

DocInfo(file) ==
  [filePath |-> file, relativePath |-> file,
   fullPath |-> PathJoin(RepoRoot, file)]

DocReadme == DocInfo(PathReadme)
DocArchitecture == DocInfo(PathArchitecture)
DocGuide == DocInfo(PathGuide)
DocGone == DocInfo(PathGone)
DocLocked == DocInfo(PathLocked)
DocElsewhere ==
  [filePath |-> PathElsewhere, relativePath |-> PathElsewhere,
   fullPath |-> FullPathElsewhere]

DocumentPool ==
  {DocReadme, DocArchitecture, DocGuide, DocGone, DocLocked, DocElsewhere}

\* the disk of the repository: gone.md is not on it
DocumentDisk ==
  DiskPlain \cup {DocReadme.fullPath, DocArchitecture.fullPath,
                  DocGuide.fullPath, DocLocked.fullPath, FullPathElsewhere}

\* fs.readFileSync throws for locked.md; README.md has no title line,
\* docs/architecture.md has the placeholder as its title, the guide has a
\* title of its own
Unreadable == {DocLocked.fullPath}

ReadFileSync(fullPath) ==
  IF fullPath = DocReadme.fullPath
  THEN JoinLines(<<LineHeadingA, LineLink>>)
  ELSE IF fullPath = DocArchitecture.fullPath
  THEN JoinLines(<<LinePlaceholderTitle, LineText>>)
  ELSE JoinLines(<<LineTitle, LineHeadingA, LineBacktick, LineLink>>)

\* the options of the caller: name 'Codebase View', 'My' or none
NameMy == <<"M", "y">>
DescriptionMine == <<"m", "i", "n", "e">>
CategoryApi == <<"a", "p", "i">>
CategoryDocs == <<"d", "o", "c", "s">>

OptionBundles ==
  [name : {<<>>, CodebaseView, NameMy},
   description : {<<>>, DescriptionMine},
   category : {<<>>, CategoryApi},
   skipValidation : BOOLEAN,
   dryRun : BOOLEAN]

\* bound of the batch
MaxDocuments == 2

DocumentLists == {<<>>} \cup SeqsUpTo(DocumentPool, MaxDocuments)

\* line 167: the description when neither the caller nor the document has one
FallbackDescription(filePath) ==
    <<"D","o","c","u","m","e","n","t","a","t","i","o","n","-","b","a","s",
      "e","d"," ","v","i","e","w"," ","f","o","r"," ">>
    \o filePath

\* a result without a view
NoView ==
  [id |-> <<>>, version |-> "", name |-> <<>>, description |-> <<>>,
   rows |-> 0, cols |-> 0, referenceGroups |-> <<>>, overviewPath |-> <<>>,
   category |-> <<>>, displayOrder |-> 0]

\* lines 160-163: the name of the view
ViewName(opts, extracted, docInfo) ==
  LET viewName == IF Truthy(opts.name) THEN opts.name ELSE extracted.name
  IN IF viewName = CodebaseView \/ ~Truthy(viewName)
     THEN GenerateViewNameFromPath(docInfo.filePath)
     ELSE viewName

\* lines 170-192: the view (the timestamp and the metadata are left out)
BuildView(opts, extracted, docInfo, relativePath) ==
  LET viewName == ViewName(opts, extracted, docInfo)
  IN [id |-> GenerateViewIdFromName(viewName),
      version |-> "1.0.0",
      name |-> viewName,
      description |-> IF Truthy(opts.description) THEN opts.description
                      ELSE IF Truthy(extracted.description)
                      THEN extracted.description
                      ELSE FallbackDescription(docInfo.filePath),
      rows |-> IF extracted.rows # 0 THEN extracted.rows ELSE 1,
      cols |-> IF extracted.cols # 0 THEN extracted.cols ELSE 1,
      referenceGroups |-> extracted.referenceGroups,
      overviewPath |-> relativePath,
      category |-> IF Truthy(opts.category) THEN opts.category
                   ELSE CategoryDocs,
      displayOrder |-> 0]

\* the failure results of lines 129-133, 137-141, 149-153 and 227-231
FailureResult(docInfo, error) ==
  [file |-> docInfo.filePath, success |-> FALSE, viewName |-> <<>>,
   viewId |-> <<>>, error |-> error, issues |-> 0, view |-> NoView]

\* the success results of lines 196-202, 208-214 and 217-224
SuccessResult(docInfo, view, issues, returned) ==
  [file |-> docInfo.filePath, success |-> TRUE, viewName |-> view.name,
   viewId |-> view.id, error |-> "", issues |-> issues, view |-> returned]

\* lines 118-154: why the document is turned down, "" when it is not
Rejection(repo, d, docInfo) ==
  IF ~InsideRepository(repo, docInfo.fullPath)
  THEN "File must be within repository"
  ELSE IF ~ExistsSync(d, docInfo.fullPath) THEN "File not found"
  ELSE IF docInfo.fullPath \in Unreadable THEN "Cannot read file"
  ELSE ""

\* line 194 without the test: the view is saved in a dry run too
SavesAlways(opts) == TRUE

\* line 194: a dry run returns before the view is saved
Saves(opts) == ~opts.dryRun

CurrentDocument == documents[docIndex + 1]

\* lines 245-246 and 118-154: the next document is turned down
CreateViewFromDocumentRejects ==
  /\ cpc = "loop"
  /\ docIndex < Len(documents)
  /\ Rejection(repositoryPath, disk, CurrentDocument) # ""
  /\ results' = Append(results,
                       FailureResult(CurrentDocument,
                                     Rejection(repositoryPath, disk,
                                               CurrentDocument)))
  /\ docIndex' = docIndex + 1
  /\ UNCHANGED <<parserVars, documents, options, store, cpc>>
  /\ UNCHANGED <<validationVars, coverageVars>>
  /\ UNCHANGED commandVars

\* lines 245-246 and 118-157: the next document is read and the parser
\* is entered (documentParser.ts lines 23-34)
CreateViewFromDocumentReads ==
  /\ cpc = "loop"
  /\ docIndex < Len(documents)
  /\ Rejection(repositoryPath, disk, CurrentDocument) = ""
  /\ content' = ReadFileSync(CurrentDocument.fullPath)
  /\ pc' = "loop"
  /\ lines' = Split(content')
  /\ i' = 0
  /\ name' = CodebaseView
  /\ description' = <<>>
  /\ inDescription' = FALSE
  /\ currentSection' = <<>>
  /\ currentFiles' = <<>>
  /\ sectionIndex' = 0
  /\ maxRow' = 0
  /\ maxCol' = 0
  /\ referenceGroups' = <<>>
  /\ result' = NoResult
  /\ cpc' = "parsing"
  /\ UNCHANGED <<repositoryPath, disk, documents, options, docIndex,
                 results, store>>
  /\ UNCHANGED <<validationVars, coverageVars>>
  /\ UNCHANGED commandVars

\* lines 159-231 and 247: the parser has returned; the view is built and,
\* unless this is a dry run, handed to the store, whose write may fail
CreateViewFromDocumentBuilds ==
  /\ cpc = "parsing"
  /\ pc = "done"
  /\ LET docInfo == CurrentDocument
         relativePath == ValidateRelativePath(repositoryPath,
                                              docInfo.fullPath)
         view == BuildView(options, result, docInfo, relativePath)
         validationResult == ValidateView(view, repositoryPath, disk)
     IN \E ioError \in BOOLEAN :
          IF ~Saves(options)
          THEN /\ results' = Append(results,
                                    SuccessResult(docInfo, view, 0, view))
               /\ store' = store
          ELSE IF ioError
          THEN /\ results' = Append(results,
                                    FailureResult(docInfo, "IOError"))
               /\ store' = store
          ELSE IF options.skipValidation
          THEN /\ store' = Append(store, view)
               /\ results' = Append(results,
                                    SuccessResult(docInfo, view, 0, view))
          ELSE /\ store' = Append(store, view)
               /\ results' =
                    Append(results,
                           SuccessResult(docInfo, view,
                                         Len(validationResult.issues),
                                         validationResult.validatedView))
  /\ pc' = "idle"
  /\ docIndex' = docIndex + 1
  /\ cpc' = "loop"
  /\ UNCHANGED <<content, repositoryPath, disk, lines, i, name, description,
                 inDescription, currentSection, currentFiles, sectionIndex,
                 maxRow, maxCol, referenceGroups, result, documents,
                 options>>
  /\ UNCHANGED <<validationVars, coverageVars>>
  /\ UNCHANGED commandVars

\* line 250: return results
CreateViewsFromDocumentsReturns ==
  /\ cpc = "loop"
  /\ docIndex = Len(documents)
  /\ cpc' = "returned"
  /\ UNCHANGED <<parserVars, documents, options, docIndex, results, store>>
  /\ UNCHANGED <<validationVars, coverageVars>>
  /\ UNCHANGED commandVars

\* the parser before it is entered
ParserIdle ==
  /\ content = <<>>
  /\ pc = "idle"
  /\ lines = <<>>
  /\ i = 0
  /\ name = CodebaseView
  /\ description = <<>>
  /\ inDescription = FALSE
  /\ currentSection = <<>>
  /\ currentFiles = <<>>
  /\ sectionIndex = 0
  /\ maxRow = 0
  /\ maxCol = 0
  /\ referenceGroups = <<>>
  /\ result = NoResult

\* createViewsFromDocuments(repositoryPath, documents, options) is called
CreationInit ==
  /\ repositoryPath = RepoRoot
  /\ disk = DocumentDisk
  /\ ParserIdle
  /\ documents \in DocumentLists
  /\ options \in OptionBundles
  /\ docIndex = 0
  /\ results = <<>>
  /\ store = <<>>
  /\ cpc = "loop"
  /\ ValidationIdle
  /\ CoverageIdle
  /\ CommandsIdle

(***************************************************************************)
(* Part 3: src/utils/validation.ts                                         *)
(***************************************************************************)

\* palace.listViews of the core library: one view per id, the latest write
\* of that id, in the order of those writes
RECURSIVE ListViews(_)
ListViews(st) ==
  IF st = <<>> THEN <<>>
  ELSE LET latest == st[Len(st)]
           earlier == ListViews(SubSeq(st, 1, Len(st) - 1))
       IN SelectSeq(earlier, LAMBDA v : v.id # latest.id) \o <<latest>>

\* stored views: a valid one, one whose name is the id of the first and
\* whose file is not on the disk, and one with a cell outside its grid
StoredView(id, viewName, file, coordinates) ==
  [id |-> id, version |-> "1.0.0", name |-> viewName,
   description |-> DescriptionMine, rows |-> 1, cols |-> 1,
   referenceGroups |-> (LabelSectionA :> [coordinates |-> coordinates,
                                          files |-> <<file>>,
                                          priority |-> 0]),
   overviewPath |-> PathReadme, category |-> CategoryDocs,
   displayOrder |-> 0]

IdGood == <<"g","o","o","d">>
IdGone == <<"g","o","n","e">>
IdGrid == <<"g","r","i","d">>
NameGrid == <<"G","r","i","d">>
IdNone == <<"n","o","n","e">>

ViewGood == StoredView(IdGood, <<"G","o","o","d">>, <<"d",".","m","d">>, <<0, 0>>)
ViewGone == StoredView(IdGone, IdGood, <<"n",".","m","d">>, <<0, 0>>)
ViewGrid == StoredView(IdGrid, NameGrid, <<"d",".","m","d">>, <<1, 0>>)

ViewPool == {ViewGood, ViewGone, ViewGrid}
IdentifierPool == {IdGood, NameGrid, IdNone}

\* bounds of the store and of the list of identifiers
MaxViews == 2
MaxIdentifiers == 2

StoredViewLists == {<<>>} \cup SeqsUpTo(ViewPool, MaxViews)
IdentifierLists == {<<>>} \cup SeqsUpTo(IdentifierPool, MaxIdentifiers)

\* line 105: allViews.find(v => v.id === identifier || v.name === identifier),
\* as the position of the view, 0 when there is none
FindView(allViews, identifier) ==
  IF \E k \in 1..Len(allViews) :
       allViews[k].id = identifier \/ allViews[k].name = identifier
  THEN CHOOSE k \in 1..Len(allViews) :
         /\ allViews[k].id = identifier \/ allViews[k].name = identifier
         /\ \A j \in 1..(k - 1) :
              allViews[j].id # identifier /\ allViews[j].name # identifier
  ELSE 0

\* the validation result the code makes up when there is none (lines 54-59,
\* 112-117 and 137-142)
MadeUpValidation(view) ==
  [isValid |-> FALSE, issues |-> <<>>, validatedView |-> view,
   summary |-> [errors |-> 1, warnings |-> 0, info |-> 0]]

\* lines 108-119: no view has the identifier as id or name
NotFoundResult(identifier) ==
  [viewId |-> identifier, viewName |-> identifier, success |-> FALSE,
   validationResult |-> MadeUpValidation(NoView),
   error |-> "View not found"]

\* lines 48-59 and 132-143: palace.validateView has thrown
ThrownResult(view) ==
  [viewId |-> view.id, viewName |-> view.name, success |-> FALSE,
   validationResult |-> MadeUpValidation(view), error |-> "thrown"]

\* lines 40-47 and 124-131
ValidatedResult(view, validationResult) ==
  [viewId |-> view.id, viewName |-> view.name,
   success |-> validationResult.isValid,
   validationResult |-> validationResult, error |-> ""]

\* lines 39-60 and 123-144: try, catch, and push in either case
Validated(view, repo, d, throws) ==
  IF throws THEN ThrownResult(view)
  ELSE ValidatedResult(view, ValidateView(view, repo, d))

\* the catch clause dropped: a view whose validation throws has no result
PushUnlessThrown(rs, r, throws) == IF throws THEN rs ELSE Append(rs, r)

\* results.push(...) of lines 42, 49, 109, 126, 133
Push(rs, r, throws) == Append(rs, r)

\* lines 38-61: one turn of the loop of validateAllViews
ValidateAllViewsStep ==
  /\ vpc = "all"
  /\ viewIndex < Len(ListViews(store))
  /\ \E throws \in BOOLEAN :
       validationResults' =
         Push(validationResults,
              Validated(ListViews(store)[viewIndex + 1], repositoryPath,
                        disk, throws),
              throws)
  /\ viewIndex' = viewIndex + 1
  /\ UNCHANGED <<parserVars, creationVars, store, identifiers, vpc,
                 coverageVars>>
  /\ UNCHANGED commandVars

\* lines 64-91: the loop of validateAllViews is over
ValidateAllViewsReturns ==
  /\ vpc = "all"
  /\ viewIndex = Len(ListViews(store))
  /\ vpc' = "returned all"
  /\ UNCHANGED <<parserVars, creationVars, store, identifiers, viewIndex,
                 validationResults, coverageVars>>
  /\ UNCHANGED commandVars

\* lines 104-120: an identifier that names no view
ValidateSpecificViewsNotFound ==
  /\ vpc = "specific"
  /\ viewIndex < Len(identifiers)
  /\ FindView(ListViews(store), identifiers[viewIndex + 1]) = 0
  /\ validationResults' =
       Push(validationResults, NotFoundResult(identifiers[viewIndex + 1]),
            FALSE)
  /\ viewIndex' = viewIndex + 1
  /\ UNCHANGED <<parserVars, creationVars, store, identifiers, vpc,
                 coverageVars>>
  /\ UNCHANGED commandVars

\* lines 104-106 and 122-145: an identifier that names a view
ValidateSpecificViewsStep ==
  /\ vpc = "specific"
  /\ viewIndex < Len(identifiers)
  /\ FindView(ListViews(store), identifiers[viewIndex + 1]) # 0
  /\ LET allViews == ListViews(store)
         view == allViews[FindView(allViews, identifiers[viewIndex + 1])]
     IN \E throws \in BOOLEAN :
          validationResults' =
            Push(validationResults,
                 Validated(view, repositoryPath, disk, throws), throws)
  /\ viewIndex' = viewIndex + 1
  /\ UNCHANGED <<parserVars, creationVars, store, identifiers, vpc,
                 coverageVars>>
  /\ UNCHANGED commandVars

\* lines 148-174: the loop of validateSpecificViews is over
ValidateSpecificViewsReturns ==
  /\ vpc = "specific"
  /\ viewIndex = Len(identifiers)
  /\ vpc' = "returned specific"
  /\ UNCHANGED <<parserVars, creationVars, store, identifiers, viewIndex,
                 validationResults, coverageVars>>
  /\ UNCHANGED commandVars

\* validateAllViews(repositoryPath) or validateSpecificViews(repositoryPath,
\* viewIdentifiers) is called on a store that holds some views
ValidationInit ==
  /\ repositoryPath = RepoRoot
  /\ disk = DocumentDisk
  /\ ParserIdle
  /\ CreationIdle
  /\ CoverageIdle
  /\ store \in StoredViewLists
  /\ \/ vpc = "all" /\ identifiers = <<>>
     \/ vpc = "specific" /\ identifiers \in IdentifierLists
  /\ viewIndex = 0
  /\ validationResults = <<>>
  /\ CommandsIdle

(***************************************************************************)
(* Part 7: src/commands/validate-all.ts, the action of the command after   *)
(* validateAllViews or validateSpecificViews has returned.                 *)
(***************************************************************************)

\* validation.ts lines 65-91 and 148-174: the summary of the results
Summarize(rs) ==
  [totalViews |-> Len(rs),
   validViews |-> Cardinality({k \in 1..Len(rs) : rs[k].success}),
   invalidViews |-> Cardinality({k \in 1..Len(rs) : ~rs[k].success})]

\* --summary, --errors-only, --issues-only and --status
DisplayOptions ==
  [summary : BOOLEAN, errorsOnly : BOOLEAN, issuesOnly : BOOLEAN,
   status : BOOLEAN]

\* lines 32-35, 38-72 and 149-151: the status the action ends with; a
\* return from the action lets the process end with status 0
ExitStatus(summary, opts) ==
  IF summary.totalViews = 0 THEN 0
  ELSE IF opts.status THEN 0
  ELSE IF summary.invalidViews > 0 THEN 1
  ELSE 0

\* lines 27-151: the command with --views runs validateSpecificViews,
\* without it validateAllViews (lines 27-30), prints, and exits
ValidateAllCommandExits ==
  /\ \/ vpc = "returned all"
     \/ vpc = "returned specific" /\ Len(identifiers) > 0
  /\ \E opts \in DisplayOptions :
       /\ displayOptions' = opts
       /\ exitStatus' = Exited(ExitStatus(Summarize(validationResults), opts))
  /\ vpc' = "exited"
  /\ UNCHANGED <<parserVars, creationVars, store, identifiers, viewIndex,
                 validationResults, coverageVars>>
  /\ UNCHANGED otherThanValidateAll

\* the result that the step appends
LastResult == results'[Len(results')]

\* one call of createViewFromDocument returns after the parser
BuildsStep == cpc = "parsing" /\ pc = "done"

\* the name as the claim resolves it
ClaimedName(opts, extracted, docInfo) ==
  IF Truthy(opts.name) THEN opts.name
  ELSE IF extracted.name # CodebaseView THEN extracted.name
  ELSE GenerateViewNameFromPath(docInfo.filePath)

\* C12: the name of a built view is the name option when one is supplied,
\* otherwise the extracted title, unless that title is the placeholder
\* 'Codebase View', in which case it is derived from the file path.
C12_NameResolution ==
  [][(BuildsStep /\ LastResult.success)
       => LastResult.view.name
            = ClaimedName(options, result, CurrentDocument)]_vars

NameReadme == <<"R","e","a","d","m","e">>
NameDocsArchitecture == <<"D","o","c","s"," ","-"," ","A","r","c","h","i","t","e","c","t","u","r","e">>

\* C13: a name derived from the path 'README.md' is "Readme" and one
\* derived from 'docs/architecture.md' is "Docs - Architecture".
C13_DocumentedNames ==
  [][(BuildsStep /\ LastResult.success /\ ~Truthy(options.name)
        /\ result.name = CodebaseView)
       => /\ CurrentDocument.filePath = PathReadme
               => LastResult.viewName = NameReadme
          /\ CurrentDocument.filePath = PathArchitecture
               => LastResult.viewName = NameDocsArchitecture]_vars

\* C14: a dry run returns the built view and writes nothing; a call that
\* fails writes nothing; the store changes only in a successful call that
\* is not a dry run, by the view that call returns.
C14_StoreChangesOnlyOnSave ==
  [][/\ store' # store
          => /\ Len(results') = Len(results) + 1
             /\ LastResult.success
             /\ ~options.dryRun
             /\ store' = Append(store, LastResult.view)
     /\ (Len(results') > Len(results)
           /\ (options.dryRun \/ ~LastResult.success))
          => store' = store
     /\ (BuildsStep /\ options.dryRun)
          => /\ LastResult.success
             /\ LastResult.view
                  = BuildView(options, result, CurrentDocument,
                              ValidateRelativePath(repositoryPath,
                                                   CurrentDocument.fullPath))
    ]_vars

\* C14 witness: a dry run has returned a built view for one document and a
\* failure for another, and nothing was written
C14_Witness ==
  /\ options.dryRun
  /\ Len(results) = 2
  /\ \E a, b \in 1..2 :
       /\ results[a].success
       /\ results[a].view # NoView
       /\ ~results[b].success
  /\ store = <<>>

\* C15: each batch operation has one outcome per input item, in the order
\* of the input, whether the items fail, throw or succeed; until it returns
\* its loop is at an item or at the end of the input, where a turn of the
\* loop or the return is possible.
C15_OneOutcomePerItemInOrder ==
  /\ Len(results) = docIndex
  /\ \A k \in 1..Len(results) : results[k].file = documents[k].filePath
  /\ cpc = "returned" => Len(results) = Len(documents)
  /\ Len(validationResults) = viewIndex
  /\ vpc \in {"all", "returned all"}
       => \A k \in 1..Len(validationResults) :
            validationResults[k].viewId = ListViews(store)[k].id
  /\ vpc = "returned all"
       => Len(validationResults) = Len(ListViews(store))
  /\ vpc \in {"specific", "returned specific"}
       => \A k \in 1..Len(validationResults) :
            LET found == FindView(ListViews(store), identifiers[k])
            IN validationResults[k].viewId
                 = IF found = 0 THEN identifiers[k]
                   ELSE ListViews(store)[found].id
  /\ vpc = "returned specific"
       => Len(validationResults) = Len(identifiers)
  /\ cpc = "loop" => docIndex <= Len(documents)
  /\ cpc = "parsing" => pc = "done" \/ (pc = "loop" /\ i <= Len(lines))
  /\ vpc = "all" => viewIndex <= Len(ListViews(store))
  /\ vpc = "specific" => viewIndex <= Len(identifiers)

\* C15 witness: validateSpecificViews has returned two results, the first
\* for a view whose validation threw, the second for a view found valid
C15_Witness ==
  /\ vpc = "returned specific"
  /\ Len(identifiers) = 2
  /\ Len(validationResults) = 2
  /\ validationResults[1].error = "thrown"
  /\ validationResults[2].success

\* C16: in every result of validateAllViews and validateSpecificViews,
\* isValid is true iff the issues hold no issue of severity error.
C16_ValidIffNoErrorIssue ==
  \A k \in 1..Len(validationResults) :
    validationResults[k].validationResult.isValid
      <=> CountSeverity(validationResults[k].validationResult.issues,
                        "error") = 0

(***************************************************************************)
(* Part 4: src/utils/coverage.ts                                           *)
(***************************************************************************)

\* lines 25-60
DEFAULT_SOURCE_EXTENSIONS ==
  <<<<".","t","s">>,
    <<".","t","s","x">>,
    <<".","j","s">>,
    <<".","j","s","x">>,
    <<".","m","j","s">>,
    <<".","c","j","s">>,
    <<".","p","y">>,
    <<".","r","b">>,
    <<".","g","o">>,
    <<".","j","a","v","a">>,
    <<".","c","p","p">>,
    <<".","c">>,
    <<".","h">>,
    <<".","r","s">>,
    <<".","s","w","i","f","t">>,
    <<".","k","t">>,
    <<".","s","c","a","l","a">>,
    <<".","p","h","p">>,
    <<".","c","s">>,
    <<".","v","u","e">>,
    <<".","s","v","e","l","t","e">>,
    <<".","a","s","t","r","o">>,
    <<".","m","d">>,
    <<".","m","d","x">>,
    <<".","j","s","o","n">>,
    <<".","y","a","m","l">>,
    <<".","y","m","l">>,
    <<".","t","o","m","l">>,
    <<".","x","m","l">>,
    <<".","c","s","s">>,
    <<".","s","c","s","s">>,
    <<".","s","a","s","s">>,
    <<".","l","e","s","s">>,
    <<".","h","t","m","l">>>>

\* ALEXANDRIA_DIRS.PRIMARY of the core library
AlexandriaPrimary == <<".","a","l","e","x","a","n","d","r","i","a">>

\* lines 66-88
GetIgnorePatterns ==
  <<<<"*","*","/">> \o AlexandriaPrimary \o <<"/","*","*">>,
    AlexandriaPrimary \o <<"/","*","*">>,
    <<".">> \o AlexandriaPrimary \o <<"/","*","*">>,
    <<"*","*","/","n","o","d","e","_","m","o","d","u","l","e","s","/","*","*">>,
    <<"*","*","/",".","g","i","t","/","*","*">>,
    <<"*","*","/","d","i","s","t","/","*","*">>,
    <<"*","*","/","b","u","i","l","d","/","*","*">>,
    <<"*","*","/","c","o","v","e","r","a","g","e","/","*","*">>,
    <<"*","*","/","*",".","l","o","g">>,
    <<"*","*","/",".","D","S","_","S","t","o","r","e">>,
    <<"*","*","/","T","h","u","m","b","s",".","d","b">>>>

\* s.split(sep) for a separator of one character
RECURSIVE SplitOn(_, _)
SplitOn(s, sep) ==
  LET at == IndexOfFrom(s, sep, 1)
  IN IF at = 0 THEN <<s>>
     ELSE <<SubSeq(s, 1, at - 1)>> \o SplitOn(Substring(s, at), sep)

\* one segment of a glob pattern against one segment of a path: an asterisk
\* stands for any characters, a leading dot included (option dot: true)
RECURSIVE SegmentMatches(_, _)
SegmentMatches(p, s) ==
  IF p = <<>> THEN s = <<>>
  ELSE IF Head(p) = "*"
  THEN SegmentMatches(Tail(p), s)
         \/ (s # <<>> /\ SegmentMatches(p, Tail(s)))
  ELSE s # <<>> /\ Head(s) = Head(p) /\ SegmentMatches(Tail(p), Tail(s))

\* the segments of a glob pattern against the segments of a path: a
\* segment of two asterisks stands for any number of directories
RECURSIVE SegmentsMatch(_, _)
SegmentsMatch(ps, ss) ==
  IF ps = <<>> THEN ss = <<>>
  ELSE IF Head(ps) = <<"*", "*">>
  THEN SegmentsMatch(Tail(ps), ss)
         \/ (ss # <<>> /\ SegmentsMatch(ps, Tail(ss)))
  ELSE /\ ss # <<>>
       /\ SegmentMatches(Head(ps), Head(ss))
       /\ SegmentsMatch(Tail(ps), Tail(ss))

\* the glob matcher behind globby
GlobMatches(pattern, path) ==
  SegmentsMatch(SplitOn(pattern, "/"), SplitOn(path, "/"))

MatchesAny(patterns, path) ==
  \E k \in 1..Len(patterns) : GlobMatches(patterns[k], path)

\* globby(patterns, {cwd, ignore, gitignore, dot: true, onlyFiles: true})
Globby(tree, ignoredByGit, patterns, ignore, gitignore) ==
  {f \in tree : /\ MatchesAny(patterns, f)
                /\ ~MatchesAny(ignore, f)
                /\ gitignore => f \notin ignoredByGit}

\* line 94 with the callers' patterns added to the fixed ones
IgnorePatternsAdded(opts) ==
  GetIgnorePatterns \o opts.excludePatterns

\* line 94: options.excludePatterns || getIgnorePatterns()
IgnorePatterns(opts) ==
  IF opts.excludePatternsGiven THEN opts.excludePatterns
  ELSE GetIgnorePatterns

\* lines 93-110
GetAllSourceFiles(tree, ignoredByGit, opts) ==
  LET ignorePatterns == IgnorePatterns(opts)
      validExtensions == IF opts.includeExtensionsGiven
                         THEN opts.includeExtensions
                         ELSE DEFAULT_SOURCE_EXTENSIONS
      patterns == [k \in 1..Len(validExtensions) |->
                     <<"*","*","/","*">> \o validExtensions[k]]
  IN Globby(tree, ignoredByGit, patterns, ignorePatterns, opts.useGitignore)

\* line 128 with every leading slash taken off
NormalizeAllSlashes(file) == StripLeading(file, {"/"})

\* line 128: file.startsWith('/') ? file.slice(1) : file
Normalize(file) ==
  IF StartsWith(file, <<"/">>) THEN Substring(file, 1) ELSE file

\* lines 115-137
GetReferencedFiles(st) ==
  LET views == ListViews(st)
  IN UNION {UNION {{Normalize(views[k].referenceGroups[cellName].files[f]) :
                      f \in 1..Len(views[k].referenceGroups[cellName].files)} :
                   cellName \in DOMAIN views[k].referenceGroups} :
            k \in 1..Len(views)}

\* the character codes that order the strings of paths
CodeUnits ==
  <<"-", ".", "/">> \o
  <<"0","1","2","3","4","5","6","7","8","9">> \o UpperLetters \o <<"_">>
    \o LowerLetters

CodeUnit(c) == CHOOSE k \in 1..Len(CodeUnits) : CodeUnits[k] = c

\* a < b for two strings, as Array.prototype.sort compares them
RECURSIVE StringLess(_, _)
StringLess(a, b) ==
  IF b = <<>> THEN FALSE
  ELSE IF a = <<>> THEN TRUE
  ELSE IF Head(a) = Head(b) THEN StringLess(Tail(a), Tail(b))
  ELSE CodeUnit(Head(a)) < CodeUnit(Head(b))

\* lines 167-168: the strings of a set, sorted
RECURSIVE Sorted(_)
Sorted(S) ==
  IF S = {} THEN <<>>
  ELSE LET least == CHOOSE x \in S : \A y \in S \ {x} : StringLess(x, y)
       IN <<least>> \o Sorted(S \ {least})

\* line 148: path.extname(file).toLowerCase() || 'no-ext'
ExtensionKey(file) ==
  IF Truthy(Extname(file)) THEN ToLower(Extname(file)) ELSE <<"n","o","-","e","x","t">>

\* line 172 without the test for an empty universe
PercentageUnguarded(coveredFiles, totalFiles) ==
  [numerator |-> coveredFiles * 100, denominator |-> totalFiles]

\* line 172: totalFiles > 0 ? (coveredFiles / totalFiles) * 100 : 100, the
\* quotient kept as a fraction
Percentage(coveredFiles, totalFiles) ==
  IF totalFiles > 0
  THEN [numerator |-> coveredFiles * 100, denominator |-> totalFiles]
  ELSE [numerator |-> 100, denominator |-> 1]

\* line 158 with a path counted as covered when a referenced path ends
\* with it or it ends with a referenced path
IsCoveredBySuffix(referenced, file) ==
  \E r \in referenced : EndsWith(r, file) \/ EndsWith(file, r)

\* line 158: referencedFiles.has(file)
IsCovered(referenced, file) == file \in referenced

\* lines 142-182
CalculateCoverageMetrics(sources, referenced) ==
  LET covered == {f \in sources : IsCovered(referenced, f)}
      uncovered == {f \in sources : ~IsCovered(referenced, f)}
      keys == {ExtensionKey(f) : f \in sources}
  IN [totalFiles |-> Cardinality(sources),
      coveredFiles |-> Cardinality(covered),
      coveredFilesList |-> Sorted(covered),
      uncoveredFiles |-> Sorted(uncovered),
      coveragePercentage |-> Percentage(Cardinality(covered),
                                        Cardinality(sources)),
      filesByExtension |->
        [e \in keys |->
           [total |-> Cardinality({f \in sources : ExtensionKey(f) = e}),
            covered |-> Cardinality({f \in covered :
                                       ExtensionKey(f) = e})]]]

\* line 189: const sourceFiles = await getAllSourceFiles(repoPath, options)
GetAllSourceFilesStep ==
  /\ kpc = "start"
  /\ sourceFiles' = GetAllSourceFiles(repositoryFiles, gitignored,
                                      coverageOptions)
  /\ kpc' = "sources"
  /\ UNCHANGED <<parserVars, creationVars, store, validationVars,
                 repositoryFiles, gitignored, coverageOptions,
                 referencedFiles, metrics>>
  /\ UNCHANGED commandVars

\* line 192: const referencedFiles = getReferencedFiles(repoPath)
GetReferencedFilesStep ==
  /\ kpc = "sources"
  /\ referencedFiles' = GetReferencedFiles(store)
  /\ kpc' = "referenced"
  /\ UNCHANGED <<parserVars, creationVars, store, validationVars,
                 repositoryFiles, gitignored, coverageOptions, sourceFiles,
                 metrics>>
  /\ UNCHANGED commandVars

\* line 195: return calculateCoverageMetrics(sourceFiles, referencedFiles)
CalculateCoverageMetricsStep ==
  /\ kpc = "referenced"
  /\ metrics' = CalculateCoverageMetrics(sourceFiles, referencedFiles)
  /\ kpc' = "returned"
  /\ UNCHANGED <<parserVars, creationVars, store, validationVars,
                 repositoryFiles, gitignored, coverageOptions, sourceFiles,
                 referencedFiles>>
  /\ UNCHANGED commandVars

\* the files of the working tree
FileSrcA == <<"s","r","c","/","a",".","t","s">>
FileSrcB == <<"s","r","c","/","b",".","t","s">>
FileSrcTest == <<"s","r","c","/","a",".","t","e","s","t",".","t","s">>
FileMakefile == <<"M","a","k","e","f","i","l","e">>
FileNodeModules == <<"n","o","d","e","_","m","o","d","u","l","e","s","/","p","/","i",".","j","s">>
FileGit == <<".","g","i","t","/","h","o","o","k","s","/","h",".","j","s">>
FileDist == <<"d","i","s","t","/","o",".","j","s">>
FileBuild == <<"p","k","g","/","b","u","i","l","d","/","o",".","j","s">>
FileAlexandria == <<".","a","l","e","x","a","n","d","r","i","a","/","v","i","e","w","s","/","v",".","j","s","o","n">>

TreeSources == {FileSrcA, FileSrcB, FileSrcTest, FileMakefile}
TreeIgnored == {FileNodeModules, FileGit, FileDist, FileBuild,
                FileAlexandria}

\* an empty tree, sources only, ignored directories only, and both
RepositoryTrees ==
  {{}, TreeSources, TreeIgnored, TreeSources \cup TreeIgnored}

\* what .gitignore matches: nothing, or dist and one source file
GitignoreMatches == {{}, {FileDist, FileSrcTest}}

\* the options of the caller: no list, an empty list, or a list
CoverageOptionBundles ==
  {[includeExtensions |-> e[2], includeExtensionsGiven |-> e[1],
    excludePatterns |-> x[2], excludePatternsGiven |-> x[1],
    useGitignore |-> g] :
     e \in {<<FALSE, <<>>>>, <<TRUE, <<<<".","t","s">>>>>>},
     x \in {<<FALSE, <<>>>>, <<TRUE, <<>>>>, <<TRUE, <<<<"*","*","/","*",".","t","e","s","t",".","t","s">>>>>>},
     g \in BOOLEAN}

\* stored views whose files are written with and without leading slashes
ViewSlash == StoredView(<<"v","1">>, <<"V","1">>, <<"/","s","r","c","/","a",".","t","s">>, <<0, 0>>)
ViewTwoSlashes == StoredView(<<"v","2">>, <<"V","2">>, <<"/","/","s","r","c","/","a",".","t","s">>, <<0, 0>>)
ViewDotSlash == StoredView(<<"v","3">>, <<"V","3">>, <<".","/","s","r","c","/","a",".","t","s">>, <<0, 0>>)
ViewPlain == StoredView(<<"v","4">>, <<"V","4">>, <<"s","r","c","/","b",".","t","s">>, <<0, 0>>)
ViewOther == StoredView(<<"v","5">>, <<"V","5">>, <<"d","o","c","s","/","n","o","n","e",".","m","d">>, <<0, 0>>)

CoverageViewPool ==
  {ViewSlash, ViewTwoSlashes, ViewDotSlash, ViewPlain, ViewOther}

\* getContextCoverage(repoPath, options) is called
CoverageInit ==
  /\ repositoryPath = RepoRoot
  /\ disk = DocumentDisk
  /\ ParserIdle
  /\ CreationIdle
  /\ ValidationIdle
  /\ store \in {<<>>} \cup SeqsUpTo(CoverageViewPool, MaxViews)
  /\ repositoryFiles \in RepositoryTrees
  /\ gitignored \in GitignoreMatches
  /\ coverageOptions \in CoverageOptionBundles
  /\ sourceFiles = {}
  /\ referencedFiles = {}
  /\ metrics = NoMetrics
  /\ kpc = "start"
  /\ CommandsIdle

CoverageNext ==
  \/ GetAllSourceFilesStep
  \/ GetReferencedFilesStep
  \/ CalculateCoverageMetricsStep

CoverageSpec == CoverageInit /\ [][CoverageNext]_vars

\* the elements of a sequence
Range(s) == {s[k] : k \in 1..Len(s)}

\* the files of the views the store lists, as they are written in the views
StoredFiles ==
  UNION {UNION {Range(v.referenceGroups[g].files) :
                  g \in DOMAIN v.referenceGroups} :
         v \in Range(ListViews(store))}

PathSlashSrcA == <<"/","s","r","c","/","a",".","t","s">>
PathTwoSlashesSrcA == <<"/","/","s","r","c","/","a",".","t","s">>
PathDotSlashSrcA == <<".","/","s","r","c","/","a",".","t","s">>

\* C17: over an empty source universe the percentage is 100 and totalFiles
\* is 0, whatever is referenced; the percentage is never a division by 0.
C17_EmptyUniverseIsFullyCovered ==
  kpc = "returned" =>
    /\ metrics.coveragePercentage.denominator # 0
    /\ sourceFiles = {} =>
         /\ metrics.coveragePercentage = [numerator |-> 100, denominator |-> 1]
         /\ metrics.totalFiles = 0

\* C17 witness: metrics were returned for an empty source universe while
\* the views reference files
C17_Witness ==
  kpc = "returned" /\ sourceFiles = {} /\ referencedFiles # {}

\* C18: every source file is in exactly one of the two lists; it is covered
\* iff its exact path is in the referenced set; the counts add up; and the
\* referenced paths outside the source universe change nothing.
C18_CoveredUncoveredPartition ==
  kpc = "returned" =>
    /\ Range(metrics.coveredFilesList) \cup Range(metrics.uncoveredFiles)
         = sourceFiles
    /\ Range(metrics.coveredFilesList) \cap Range(metrics.uncoveredFiles)
         = {}
    /\ NoDuplicates(metrics.coveredFilesList)
    /\ NoDuplicates(metrics.uncoveredFiles)
    /\ \A f \in sourceFiles :
         f \in Range(metrics.coveredFilesList) <=> f \in referencedFiles
    /\ metrics.coveredFiles = Len(metrics.coveredFilesList)
    /\ metrics.totalFiles = Cardinality(sourceFiles)
    /\ metrics.coveredFiles + Len(metrics.uncoveredFiles)
         = metrics.totalFiles
    /\ metrics = CalculateCoverageMetrics(sourceFiles,
                                          referencedFiles \cap sourceFiles)

\* C18 witness: metrics with a covered file, with an uncovered file that a
\* referenced path ends with, and with a referenced path that is no source
\* file
C18_Witness ==
  /\ kpc = "returned"
  /\ metrics.coveredFiles > 0
  /\ FileSrcA \in Range(metrics.uncoveredFiles)
  /\ PathDotSlashSrcA \in referencedFiles
  /\ referencedFiles \ sourceFiles # {}

\* C19: a referenced path loses one leading slash, if it has one, and
\* is otherwise kept as it is written: '/src/a.ts' gives 'src/a.ts',
\* '//src/a.ts' gives '/src/a.ts', './src/a.ts' stays, and 'src/a.ts' is
\* covered only by a view file 'src/a.ts' or '/src/a.ts'.
C19_OneLeadingSlashStripped ==
  /\ kpc \in {"referenced", "returned"} =>
       /\ \A f \in StoredFiles :
            IF f # <<>> /\ Head(f) = "/" THEN Tail(f) \in referencedFiles
            ELSE f \in referencedFiles
       /\ \A r \in referencedFiles :
            \E f \in StoredFiles : f = r \/ f = <<"/">> \o r
       /\ PathSlashSrcA \in StoredFiles => FileSrcA \in referencedFiles
       /\ PathTwoSlashesSrcA \in StoredFiles
            => PathSlashSrcA \in referencedFiles
       /\ PathDotSlashSrcA \in StoredFiles
            => PathDotSlashSrcA \in referencedFiles
  /\ (kpc = "returned" /\ FileSrcA \in sourceFiles) =>
       (FileSrcA \in Range(metrics.coveredFilesList)
          <=> (FileSrcA \in StoredFiles \/ PathSlashSrcA \in StoredFiles))

\* C19 witness: the views name '//src/a.ts' and './src/a.ts' only, and
\* the source file 'src/a.ts' is reported as uncovered
C19_Witness ==
  /\ kpc = "returned"
  /\ StoredFiles = {PathTwoSlashesSrcA, PathDotSlashSrcA}
  /\ FileSrcA \in Range(metrics.uncoveredFiles)

\* the directories the code says it always ignores (lines 69-79)
AlwaysIgnoredDirectories ==
  {AlexandriaPrimary, <<"n","o","d","e","_","m","o","d","u","l","e","s">>, <<".","g","i","t">>, <<"d","i","s","t">>, <<"b","u","i","l","d">>}

UnderAlwaysIgnored(file) ==
  LET segments == SplitOn(file, "/")
  IN \E k \in 1..(Len(segments) - 1) :
       segments[k] \in AlwaysIgnoredDirectories

\* C20: no file of the source universe is under an always-ignored
\* directory, whatever the options of the caller are.
C20_AlwaysIgnoredNeverListed ==
  kpc # "start" => \A f \in sourceFiles : ~UnderAlwaysIgnored(f)

(***************************************************************************)
(* Part 5: the stamp operation, docs/STAMP_FEATURE_DESIGN (part_000 of     *)
(* the unnamed sources), lines 42-51.  getView and updateView belong to    *)
(* the store of the core library and follow its contract: a view is        *)
(* looked up by id, and an update writes the stored view with the fields   *)
(* of the update replaced.  A timestamp is a number of the clock; only     *)
(* equality of timestamps is ever used.                                    *)
(***************************************************************************)

\* a view as the store holds it, with the timestamp of its last write
Timestamped(view, t) ==
  [f \in DOMAIN view \cup {"timestamp"} |->
     IF f = "timestamp" THEN t ELSE view[f]]

\* this.getView(repositoryRootPath, viewId): NoView when no view has the id
GetView(st, id) ==
  LET allViews == ListViews(st)
  IN IF \E k \in 1..Len(allViews) : allViews[k].id = id
     THEN allViews[CHOOSE k \in 1..Len(allViews) : allViews[k].id = id]
     ELSE NoView

\* the view with the fields of a Partial<CodebaseView> replaced
MergeUpdates(view, updates) ==
  [f \in DOMAIN view \cup DOMAIN updates |->
     IF f \in DOMAIN updates THEN updates[f] ELSE view[f]]

\* this.updateView(repositoryRootPath, viewId, updates): the store after it
UpdateView(st, id, updates) ==
  Append(st, MergeUpdates(GetView(st, id), updates))

\* the update with a second field in it
StampUpdatesWithName(given, clock) ==
  [timestamp |-> IF given.given THEN given.value ELSE clock,
   name |-> <<>>]

\* lines 48-50: { timestamp: timestamp ?? new Date().toISOString() }
StampUpdates(given, clock) ==
  [timestamp |-> IF given.given THEN given.value ELSE clock]

\* lines 43-46: if (!view) return false
StampViewNotFound ==
  /\ spc = "start"
  /\ GetView(store, viewId) = NoView
  /\ stamped' = FALSE
  /\ spc' = "returned"
  /\ UNCHANGED <<parserVars, creationVars, store, validationVars,
                 coverageVars, viewId, timestamp, now>>
  /\ UNCHANGED otherThanStamp

\* lines 43 and 48-50: return this.updateView(...)
StampViewUpdates ==
  /\ spc = "start"
  /\ GetView(store, viewId) # NoView
  /\ store' = UpdateView(store, viewId, StampUpdates(timestamp, now))
  /\ stamped' = TRUE
  /\ spc' = "returned"
  /\ UNCHANGED <<parserVars, creationVars, validationVars, coverageVars,
                 viewId, timestamp, now>>
  /\ UNCHANGED otherThanStamp

\* the views of the store before the call, some of them written before
\* timestamps existed
StampViewPool ==
  ViewPool \cup {Timestamped(v, t) : v \in ViewPool, t \in {1, 2}}

\* the optional third argument, and the readings of the clock
TimestampArguments ==
  {[given |-> FALSE, value |-> 0], [given |-> TRUE, value |-> 1],
   [given |-> TRUE, value |-> 3]}
ClockReadings == {4, 5}

\* stampView(repositoryRootPath, viewId, timestamp) is called
StampInit ==
  /\ repositoryPath = RepoRoot
  /\ disk = DocumentDisk
  /\ ParserIdle
  /\ CreationIdle
  /\ ValidationIdle
  /\ CoverageIdle
  /\ store \in {<<>>} \cup SeqsUpTo(StampViewPool, MaxViews)
  /\ viewId \in {IdGood, IdGone, NameGrid, IdNone}
  /\ timestamp \in TimestampArguments
  /\ now \in ClockReadings
  /\ stamped = FALSE
  /\ spc = "start"
  /\ UntrackedIdle
  /\ ValidateAllIdle
  /\ RootIdle
  /\ OutpostIdle

StampNext == StampViewNotFound \/ StampViewUpdates

StampSpec == StampInit /\ [][StampNext]_vars

\* the ids of a list of views
IdsOf(allViews) == {allViews[k].id : k \in 1..Len(allViews)}

\* every field but the timestamp is the same in both views
SameButTimestamp(before, after) ==
  /\ DOMAIN after \ {"timestamp"} = DOMAIN before \ {"timestamp"}
  /\ \A f \in DOMAIN before \ {"timestamp"} : after[f] = before[f]

\* C21: stampView on an id that no stored view has returns false and the
\* list of views after the call is the list before it; on the id of a
\* stored view it returns true, that view differs from what it was in its
\* timestamp only, and every other view is stored as it was.
C21_StampFrame ==
  [][(spc = "start" /\ spc' = "returned") =>
       IF viewId \notin IdsOf(ListViews(store))
       THEN stamped' = FALSE /\ ListViews(store') = ListViews(store)
       ELSE /\ stamped' = TRUE
            /\ IdsOf(ListViews(store')) = IdsOf(ListViews(store))
            /\ \A id \in IdsOf(ListViews(store)) :
                 IF id = viewId
                 THEN SameButTimestamp(GetView(store, id),
                                       GetView(store', id))
                 ELSE GetView(store', id) = GetView(store, id)]_vars

\* a view has been stamped with the reading of the clock while the store
\* holds a second view
C21_Witness ==
  /\ spc = "returned"
  /\ stamped
  /\ Len(ListViews(store)) = 2
  /\ ~timestamp.given
  /\ GetView(store, viewId).timestamp = now

(***************************************************************************)
(* Part 6: the three enumerations of untracked documents:                  *)
(* src/commands/list-untracked-docs.ts lines 44-107, getUntrackedDocs of   *)
(* src/commands/status.ts lines 130-176, and findUntrackedDocuments of     *)
(* src/utils/viewCreation.ts lines 41-86.  The working tree is the set of  *)
(* its files, named by their paths relative to the root; gitignored holds  *)
(* the files the rules of .gitignore match.  The arrays of the code are    *)
(* modelled as sets: the claims read membership and size only, and the     *)
(* sort of lines 77-84 permutes the array without changing either.         *)
(***************************************************************************)

BeginsWithDot(s) == s # <<>> /\ Head(s) = "."

\* the glob matcher of globby when the option dot is not given, as in both
\* calls for markdown files (coverage.ts line 116 gives dot: true): an
\* asterisk matches no name that begins with a dot
RECURSIVE SegmentsMatchNoDot(_, _)
SegmentsMatchNoDot(ps, ss) ==
  IF ps = <<>> THEN ss = <<>>
  ELSE IF Head(ps) = <<"*", "*">>
  THEN SegmentsMatchNoDot(Tail(ps), ss)
         \/ (/\ ss # <<>>
             /\ ~BeginsWithDot(Head(ss))
             /\ SegmentsMatchNoDot(ps, Tail(ss)))
  ELSE /\ ss # <<>>
       /\ (Head(ps) # <<>> /\ Head(Head(ps)) = "*")
            => ~BeginsWithDot(Head(ss))
       /\ SegmentMatches(Head(ps), Head(ss))
       /\ SegmentsMatchNoDot(Tail(ps), Tail(ss))

\* globby(patterns, {cwd, gitignore: true, absolute: false, onlyFiles: true})
GlobbyMarkdown(tree, ignoredByGit, patterns) ==
  {f \in tree :
     /\ \E k \in 1..Len(patterns) :
          SegmentsMatchNoDot(SplitOn(patterns[k], "/"), SplitOn(f, "/"))
     /\ f \notin ignoredByGit}

\* ['**/*.md', '**/*.markdown', '**/*.mdx']
MarkdownPatterns ==
  <<<<"*","*","/","*",".","m","d">>,
    <<"*","*","/","*",".","m","a","r","k","d","o","w","n">>,
    <<"*","*","/","*",".","m","d","x">>>>

\* ig.ignores(file), ig holding the content of .gitignore
Ignores(ignoredByGit, file) == file \in ignoredByGit

\* lines 45-56 of the command, lines 51-62 of findUntrackedDocuments
NonAlexandriaFiles(tree, ignoredByGit) ==
  LET allMarkdownFiles == GlobbyMarkdown(tree, ignoredByGit, MarkdownPatterns)
      gitFilteredFiles ==
        {f \in allMarkdownFiles : ~Ignores(ignoredByGit, f)}
  IN {f \in gitFilteredFiles :
        ~StartsWith(f, AlexandriaPrimary \o <<"/">>)}

\* matchesPatterns of the core library
IsExcluded(filePath, patterns) == MatchesAny(patterns, filePath)

\* filterByExcludePatterns of the core library
FilterByExcludePatterns(files, patterns) ==
  {f \in files : ~IsExcluded(f, patterns)}

\* view.overviewPath.replace(/^\.\//, '')
RemoveDotSlash(p) ==
  IF StartsWith(p, <<".", "/">>) THEN Substring(p, 2) ELSE p

\* the overview paths kept as they are stored
OverviewPathsAsStored(allViews) ==
  {allViews[k].overviewPath :
     k \in {j \in 1..Len(allViews) : Truthy(allViews[j].overviewPath)}}

\* lines 62-71 of the command, lines 67-76 of findUntrackedDocuments
OverviewPaths(allViews) ==
  {RemoveDotSlash(allViews[k].overviewPath) :
     k \in {j \in 1..Len(allViews) : Truthy(allViews[j].overviewPath)}}

\* list-untracked-docs.ts lines 44-94: the counts and the list it reports
ListUntrackedDocs(tree, ignoredByGit, patterns, st) ==
  LET configFilteredFiles ==
        FilterByExcludePatterns(NonAlexandriaFiles(tree, ignoredByGit),
                                patterns)
      overviewPaths == OverviewPaths(ListViews(st))
      untrackedFiles == configFilteredFiles \ overviewPaths
  IN [total |-> Cardinality(untrackedFiles),
      totalMarkdownFiles |-> Cardinality(configFilteredFiles),
      filesInViews |-> Cardinality(overviewPaths),
      untrackedFiles |-> untrackedFiles]

\* viewCreation.ts lines 41-86: the filePath of every document returned
FindUntrackedDocuments(tree, ignoredByGit, st) ==
  NonAlexandriaFiles(tree, ignoredByGit) \ OverviewPaths(ListViews(st))

\* status.ts line 146: the directories findMarkdownFiles never enters
SkippedDirectories ==
  {<<"n","o","d","e","_","m","o","d","u","l","e","s">>,
   <<".","g","i","t">>, AlexandriaPrimary, <<"d","i","s","t">>,
   <<"b","u","i","l","d">>}

\* path.join of the first k names of a path
RECURSIVE JoinSegments(_, _)
JoinSegments(segments, k) ==
  IF k = 0 THEN <<>>
  ELSE IF k = 1 THEN segments[1]
  ELSE JoinSegments(segments, k - 1) \o <<"/">> \o segments[k]

\* status.ts lines 137-159: findMarkdownFiles reaches the file and pushes it
FindMarkdownFiles(file, patterns) ==
  LET segments == SplitOn(file, "/")
      n == Len(segments)
  IN /\ \A k \in 1..(n - 1) :
          /\ segments[k] \notin SkippedDirectories
          /\ ~IsExcluded(JoinSegments(segments, k), patterns)
          /\ ~IsExcluded(JoinSegments(segments, k) \o <<"/">>, patterns)
     /\ EndsWith(segments[n], <<".", "m", "d">>)
     /\ ~IsExcluded(file, patterns)

\* status.ts lines 130-176
GetUntrackedDocs(tree, patterns, st) ==
  {f \in tree : FindMarkdownFiles(f, patterns)}
    \ OverviewPathsAsStored(ListViews(st))

\* the action of list-untracked-docs, lines 27-107
ListUntrackedDocsRuns ==
  /\ ran # {}
  /\ "list" \notin ran
  /\ jsonOutput' = ListUntrackedDocs(repositoryFiles, gitignored,
                                     excludePatterns, store)
  /\ ran' = ran \cup {"list"}
  /\ UNCHANGED <<parserVars, creationVars, store, validationVars,
                 coverageVars, excludePatterns, untrackedDocs,
                 untrackedDocuments>>
  /\ UNCHANGED otherThanUntracked

\* status.ts lines 255-256
GetUntrackedDocsRuns ==
  /\ ran # {}
  /\ "status" \notin ran
  /\ untrackedDocs' = GetUntrackedDocs(repositoryFiles, excludePatterns,
                                       store)
  /\ ran' = ran \cup {"status"}
  /\ UNCHANGED <<parserVars, creationVars, store, validationVars,
                 coverageVars, excludePatterns, jsonOutput,
                 untrackedDocuments>>
  /\ UNCHANGED otherThanUntracked

\* add-all-docs (part_007 line 232) calls findUntrackedDocuments
FindUntrackedDocumentsRuns ==
  /\ ran # {}
  /\ "find" \notin ran
  /\ untrackedDocuments' = FindUntrackedDocuments(repositoryFiles,
                                                  gitignored, store)
  /\ ran' = ran \cup {"find"}
  /\ UNCHANGED <<parserVars, creationVars, store, validationVars,
                 coverageVars, excludePatterns, jsonOutput, untrackedDocs>>
  /\ UNCHANGED otherThanUntracked

\* the files of the working trees
FileGuide == <<"d","o","c","s","/","g","u","i","d","e",".","m","d">>
FileNotesMarkdown == <<"n","o","t","e","s",".","m","a","r","k","d","o","w","n">>
FilePageMdx == <<"p","a","g","e",".","m","d","x">>
FileGithub == <<".","g","i","t","h","u","b","/","P","U","L","L",".","m","d">>
FileInternal == <<".","a","l","e","x","a","n","d","r","i","a","/","i","n","t","e","r","n","a","l",".","m","d">>
FileBuildOutput == <<"b","u","i","l","d","/","o","u","t","p","u","t",".","m","d">>
FileTmp == <<"t","m","p",".","m","d">>
PathMissing == <<"m","i","s","s","i","n","g",".","m","d">>
PathDotReadme == <<".","/","R","E","A","D","M","E",".","m","d">>
PatternDocs == <<"d","o","c","s","/","*","*">>

TreeDocs ==
  {PathReadme, FileGuide, FileNotesMarkdown, FilePageMdx, FileGithub,
   FileInternal, FileBuildOutput, FileTmp, FileSrcA}
TreePlain == {PathReadme, FileGuide, FileSrcA}

\* a stored view whose overview is the given document
TrackingView(id, overviewPath) ==
  [StoredView(id, id, FileSrcA, <<0, 0>>) EXCEPT
     !.overviewPath = overviewPath]

TrackingViewPool ==
  {TrackingView(IdGood, PathReadme), TrackingView(IdGone, PathDotReadme),
   TrackingView(IdGrid, FileGuide), TrackingView(IdNone, PathMissing),
   TrackingView(NameGrid, <<>>)}

\* a repository, its .gitignore, its configuration and its store, before
\* any of the three enumerations has run
UntrackedInit ==
  /\ repositoryPath = RepoRoot
  /\ disk = DocumentDisk
  /\ ParserIdle
  /\ CreationIdle
  /\ ValidationIdle
  /\ store \in {<<>>} \cup SeqsUpTo(TrackingViewPool, MaxViews)
  /\ repositoryFiles \in {TreeDocs, TreePlain}
  /\ gitignored \in {{}, {FileBuildOutput, FileTmp}}
  /\ coverageOptions = [includeExtensions |-> <<>>,
                        includeExtensionsGiven |-> FALSE,
                        excludePatterns |-> <<>>,
                        excludePatternsGiven |-> FALSE,
                        useGitignore |-> TRUE]
  /\ sourceFiles = {}
  /\ referencedFiles = {}
  /\ metrics = NoMetrics
  /\ kpc = "idle"
  /\ StampIdle
  /\ ValidateAllIdle
  /\ RootIdle
  /\ OutpostIdle
  /\ excludePatterns \in {<<>>, <<PatternDocs>>}
  /\ jsonOutput = NoOutput
  /\ untrackedDocs = {}
  /\ untrackedDocuments = {}
  /\ ran = {"start"}

UntrackedNext ==
  \/ ListUntrackedDocsRuns
  \/ GetUntrackedDocsRuns
  \/ FindUntrackedDocumentsRuns

UntrackedSpec == UntrackedInit /\ [][UntrackedNext]_vars

\* a file whose name ends in .md, .markdown or .mdx
IsMarkdownFile(f) ==
  \/ EndsWith(f, <<".", "m", "d">>)
  \/ EndsWith(f, <<".", "m", "a", "r", "k", "d", "o", "w", "n">>)
  \/ EndsWith(f, <<".", "m", "d", "x">>)

\* what the claim asks of a file for it to be reported
ExpectedUntracked(f) ==
  /\ IsMarkdownFile(f)
  /\ f \notin gitignored
  /\ ~StartsWith(f, AlexandriaPrimary \o <<"/">>)
  /\ ~IsExcluded(f, excludePatterns)
  /\ f \notin OverviewPaths(ListViews(store))

\* C22: list-untracked-docs reports a file of the repository as untracked
\* exactly when it is a markdown file (.md, .markdown, .mdx) that is not
\* gitignored, not under .alexandria, not excluded by the configured
\* patterns, and not the overviewPath of a stored view, a leading './' of
\* the overviewPath removed.
C22_UntrackedIffUnreferencedMarkdown ==
  "list" \in ran =>
    \A f \in repositoryFiles :
      f \in jsonOutput.untrackedFiles <=> ExpectedUntracked(f)

\* C23: the counts reported by list-untracked-docs satisfy
\* total markdown files = files in CodebaseViews + untracked files.
C23_CountsAddUp ==
  "list" \in ran =>
    jsonOutput.totalMarkdownFiles = jsonOutput.filesInViews + jsonOutput.total

\* C28: for the same repository, configuration and store, the status
\* command, list-untracked-docs and findUntrackedDocuments compute the
\* same set of untracked documents.
C28_SameUntrackedSets ==
  {"list", "status", "find"} \subseteq ran =>
    /\ untrackedDocs = jsonOutput.untrackedFiles
    /\ untrackedDocuments = jsonOutput.untrackedFiles

\* C24: validate-all exits with a non-zero status when at least one
\* validated view is invalid, and with success only when none is, whatever
\* the display options are.
C24_ExitStatusFollowsInvalidViews ==
  exitStatus.exited =>
    (exitStatus.code # 0 <=>
       \E k \in 1..Len(validationResults) : ~validationResults[k].success)

\* C27: in validateSpecificViews an identifier that is the id of a stored
\* view resolves to that view: the viewId of its result is the identifier,
\* whatever the names of the other stored views are.
C27_IdTakesPrecedenceOverName ==
  vpc \in {"specific", "returned specific"} =>
    \A k \in 1..Len(validationResults) :
      identifiers[k] \in IdsOf(ListViews(store))
        => validationResults[k].viewId = identifiers[k]

(***************************************************************************)
(* Part 8: src/utils/repository.ts, findRepositoryRoot (lines 56-67) and   *)
(* getRepositoryRoot (lines 86-94), called by a command whose catch        *)
(* clause prints the error and exits (list-untracked-docs.ts lines 28-30   *)
(* and 150-153).  A path is absolute and normalised, as path.resolve       *)
(* returns it; path.dirname is Dirname of part 2.                          *)
(***************************************************************************)

FilesystemRoot == <<"/">>

NotInGitRepository == "Not in a git repository"

\* lines 59-61: the test of the loop holds and '.git' exists here
FindRepositoryRootReturnsPath ==
  /\ rpc = "loop"
  /\ currentPath # Dirname(currentPath)
  /\ currentPath \in gitDirectories
  /\ repoPath' = currentPath
  /\ rpc' = "found"
  /\ UNCHANGED <<startPath, currentPath, gitDirectories, errorOutput>>
  /\ UNCHANGED <<parserVars, creationVars, store, validationVars,
                 coverageVars, validateAllVars>>
  /\ UNCHANGED otherThanRoot

\* lines 59-63: the test of the loop holds and '.git' does not exist here
FindRepositoryRootAscends ==
  /\ rpc = "loop"
  /\ currentPath # Dirname(currentPath)
  /\ currentPath \notin gitDirectories
  /\ currentPath' = Dirname(currentPath)
  /\ UNCHANGED <<startPath, gitDirectories, repoPath, errorOutput, rpc>>
  /\ UNCHANGED <<parserVars, creationVars, store, validationVars,
                 coverageVars, validateAllVars>>
  /\ UNCHANGED otherThanRoot

\* lines 59 and 66: the test of the loop fails, return null
FindRepositoryRootReturnsNull ==
  /\ rpc = "loop"
  /\ currentPath = Dirname(currentPath)
  /\ repoPath' = <<>>
  /\ rpc' = "null"
  /\ UNCHANGED <<startPath, currentPath, gitDirectories, errorOutput>>
  /\ UNCHANGED <<parserVars, creationVars, store, validationVars,
                 coverageVars, validateAllVars>>
  /\ UNCHANGED otherThanRoot

\* lines 87-93 of getRepositoryRoot, the path returned to the command
GetRepositoryRootReturns ==
  /\ rpc = "found"
  /\ Truthy(repoPath)
  /\ rpc' = "returned"
  /\ UNCHANGED <<startPath, currentPath, gitDirectories, repoPath,
                 errorOutput>>
  /\ UNCHANGED <<parserVars, creationVars, store, validationVars,
                 coverageVars, validateAllVars>>
  /\ UNCHANGED otherThanRoot

\* lines 89-91 of getRepositoryRoot throw; the catch clause of the command
\* prints the message and calls process.exit(1)
GetRepositoryRootThrows ==
  /\ rpc = "null"
  /\ ~Truthy(repoPath)
  /\ errorOutput' = NotInGitRepository
  /\ exitStatus' = Exited(1)
  /\ rpc' = "exited"
  /\ UNCHANGED <<startPath, currentPath, gitDirectories, repoPath,
                 displayOptions>>
  /\ UNCHANGED <<parserVars, creationVars, store, validationVars,
                 coverageVars>>
  /\ UNCHANGED otherThanRoot

\* the depth of the deepest directory, and the names of directories
MaxDepth == 3
DirectoryNames == {"a", "b"}

\* the directories of the file system down to a depth
RECURSIVE DirectoriesTo(_)
DirectoriesTo(depth) ==
  IF depth = 0 THEN {FilesystemRoot}
  ELSE LET above == DirectoriesTo(depth - 1)
       IN above \cup {IF d = FilesystemRoot THEN d \o <<n>>
                      ELSE d \o <<"/", n>> :
                        d \in above, n \in DirectoryNames}

Directories == DirectoriesTo(MaxDepth)

\* findRepositoryRoot(startPath) is called by a command; at most two
\* directories hold an entry '.git'
RootInit ==
  /\ repositoryPath = RepoRoot
  /\ disk = DocumentDisk
  /\ ParserIdle
  /\ CreationIdle
  /\ store = <<>>
  /\ ValidationIdle
  /\ CoverageIdle
  /\ StampIdle
  /\ UntrackedIdle
  /\ ValidateAllIdle
  /\ OutpostIdle
  /\ startPath \in Directories
  /\ currentPath = startPath
  /\ gitDirectories \in {g \in SUBSET Directories : Cardinality(g) <= 2}
  /\ repoPath = <<>>
  /\ errorOutput = ""
  /\ rpc = "loop"

RootNext ==
  \/ FindRepositoryRootReturnsPath
  \/ FindRepositoryRootAscends
  \/ FindRepositoryRootReturnsNull
  \/ GetRepositoryRootReturns
  \/ GetRepositoryRootThrows

RootSpec == RootInit /\ [][RootNext]_vars

\* a directory and the directories above it, the filesystem root included
RECURSIVE SelfAndAncestors(_)
SelfAndAncestors(d) ==
  IF d = Dirname(d) THEN {d} ELSE {d} \cup SelfAndAncestors(Dirname(d))

\* those of them that hold '.git'
Candidates == SelfAndAncestors(startPath) \cap gitDirectories

\* C25: findRepositoryRoot returns the nearest directory among the start
\* and its ancestors, the filesystem root included, that holds '.git', and
\* null only when none of them does; then the command fails with 'Not in a
\* git repository' and status 1.
C25_NearestGitDirectoryRootIncluded ==
  /\ rpc \in {"found", "returned"} =>
       /\ repoPath \in Candidates
       /\ \A d \in Candidates : Len(d) <= Len(repoPath)
  /\ rpc \in {"null", "exited"} => Candidates = {}
  /\ rpc = "exited" => errorOutput = NotInGitRepository /\ exitStatus = Exited(1)

(***************************************************************************)
(* Part 9: the add-all-docs command (part_007 of the unnamed sources,      *)
(* lines 227-258): findUntrackedDocuments, then createViewsFromDocuments   *)
(* over what it returned.  The second call of findUntrackedDocuments is    *)
(* the next run of the command on the same repository.                     *)
(***************************************************************************)

FileFaq == <<"d","o","c","s","/","f","a","q",".","m","d">>

\* the orders in which globby may return the files of a set
Orderings(files) ==
  {s \in [1..Cardinality(files) -> files] :
     \A j, k \in 1..Cardinality(files) : s[j] = s[k] => j = k}

\* viewCreation.ts lines 81-85
DocInfos(files) == [k \in 1..Len(files) |-> DocInfo(files[k])]

\* part_007 lines 250-254: the options the command passes on
AddAllDocsOptions ==
  {[name |-> <<>>, description |-> <<>>, category |-> c,
    skipValidation |-> s, dryRun |-> d] :
     c \in {CategoryDocs, CategoryApi}, s \in BOOLEAN, d \in BOOLEAN}

\* part_007 lines 229-237 and 256: the untracked documents are found and,
\* unless there are none, handed to createViewsFromDocuments
AddAllDocsFinds ==
  /\ cpc = "finding"
  /\ LET found == FindUntrackedDocuments(repositoryFiles, gitignored, store)
     IN /\ untrackedDocuments' = found
        /\ IF found = {}
           THEN documents' = <<>> /\ cpc' = "nothing to add"
           ELSE /\ \E order \in Orderings(found) :
                     documents' = DocInfos(order)
                /\ cpc' = "loop"
  /\ UNCHANGED <<parserVars, options, docIndex, results, store,
                 validationVars, coverageVars, excludePatterns, jsonOutput,
                 untrackedDocs, ran>>
  /\ UNCHANGED otherThanUntracked

\* part_007 line 232 in the next run of the command
AddAllDocsFindsAgain ==
  /\ cpc = "returned"
  /\ ran = {"add-all-docs"}
  /\ untrackedDocuments' = FindUntrackedDocuments(repositoryFiles,
                                                  gitignored, store)
  /\ ran' = {"add-all-docs", "again"}
  /\ UNCHANGED <<parserVars, creationVars, store, validationVars,
                 coverageVars, excludePatterns, jsonOutput, untrackedDocs>>
  /\ UNCHANGED otherThanUntracked

\* the markdown documents of the repositories of add-all-docs
MarkdownTrees ==
  {{PathReadme, PathArchitecture}, {PathReadme, PathGuide, FileFaq},
   {PathGuide, PathLocked, FileSrcA}, {FileInternal, FileSrcA}}

\* add-all-docs is run in a repository whose store is empty or tracks
\* README.md
AddAllDocsInit ==
  /\ repositoryPath = RepoRoot
  /\ disk = DocumentDisk \cup {PathJoin(RepoRoot, FileFaq)}
  /\ ParserIdle
  /\ documents = <<>>
  /\ options \in AddAllDocsOptions
  /\ docIndex = 0
  /\ results = <<>>
  /\ cpc = "finding"
  /\ store \in {<<>>, <<TrackingView(IdGood, PathDotReadme)>>}
  /\ ValidationIdle
  /\ repositoryFiles \in MarkdownTrees
  /\ gitignored = {}
  /\ coverageOptions = [includeExtensions |-> <<>>,
                        includeExtensionsGiven |-> FALSE,
                        excludePatterns |-> <<>>,
                        excludePatternsGiven |-> FALSE,
                        useGitignore |-> TRUE]
  /\ sourceFiles = {}
  /\ referencedFiles = {}
  /\ metrics = NoMetrics
  /\ kpc = "idle"
  /\ StampIdle
  /\ excludePatterns = <<>>
  /\ jsonOutput = NoOutput
  /\ untrackedDocs = {}
  /\ untrackedDocuments = {}
  /\ ran = {"add-all-docs"}
  /\ ValidateAllIdle
  /\ RootIdle
  /\ OutpostIdle

(***************************************************************************)
(* Specification of the batch operations                                   *)
(***************************************************************************)

BatchInit == CreationInit \/ ValidationInit \/ AddAllDocsInit

BatchNext ==
  \/ CreateViewFromDocumentRejects
  \/ CreateViewFromDocumentReads
  \/ TitleLine
  \/ SectionHeading
  \/ BodyLine
  \/ Finish
  \/ CreateViewFromDocumentBuilds
  \/ CreateViewsFromDocumentsReturns
  \/ ValidateAllViewsStep
  \/ ValidateAllViewsReturns
  \/ ValidateSpecificViewsNotFound
  \/ ValidateSpecificViewsStep
  \/ ValidateSpecificViewsReturns
  \/ ValidateAllCommandExits
  \/ AddAllDocsFinds
  \/ AddAllDocsFindsAgain

BatchSpec == BatchInit /\ [][BatchNext]_vars

\* the files of the documents handed to createViewsFromDocuments
DocumentFiles == {documents[k].filePath : k \in 1..Len(documents)}

\* C26: after a createViewsFromDocuments that was no dry run, over the
\* documents findUntrackedDocuments returned, with every result a success,
\* each of those documents is the overviewPath of a stored view of its own
\* and the next findUntrackedDocuments returns none of them.
C26_CreatedDocumentsAreTracked ==
  (/\ ran = {"add-all-docs", "again"}
   /\ ~options.dryRun
   /\ \A k \in 1..Len(results) : results[k].success)
    => /\ \A f \in DocumentFiles :
            \E k \in 1..Len(ListViews(store)) :
              ListViews(store)[k].overviewPath = f
       /\ untrackedDocuments \cap DocumentFiles = {}

(***************************************************************************)
(* Part 10: src/commands/outpost.ts.  Every invocation of 'outpost serve', *)
(* 'outpost status' and 'outpost kill' is a process of its own; the       *)
(* processes share the PID file, the configuration file and the table of   *)
(* processes of the machine, and their system calls interleave.            *)
(* writeFileSync opens the file, which creates or empties it, and writes   *)
(* the data with a second call; a write to a file that was unlinked after  *)
(* it was opened leaves no file behind.  Process ids are never reused.     *)
(***************************************************************************)

\* bounds: the invocations of the command and the servers ever spawned
MaxInvocations == 3
MaxServers == 2

Commands == {"serve --detached", "serve", "status", "kill"}

\* an invocation: its subcommand, its position, what isOutpostRunning
\* returned to it, the child it spawned, and the status it exited with
Invocation(command) ==
  [command |-> command, ipc |-> "isOutpostRunning", running |-> FALSE,
   pid |-> 0, child |-> 0, status |-> NotExited]

\* lines 131-133, 246-247 and 274-275: an invocation starts with
\* isOutpostRunning()
OutpostInvoked ==
  /\ Len(invocations) < MaxInvocations
  /\ \E command \in Commands :
       invocations' = Append(invocations, Invocation(command))
  /\ UNCHANGED <<pidFile, configFile, alive, spawned>>
  /\ UNCHANGED <<parserVars, creationVars, store, validationVars,
                 coverageVars>>
  /\ UNCHANGED otherThanOutpost

\* lines 51-60: parseInt of an empty file is NaN and process.kill(NaN, 0)
\* throws, process.kill(pid, 0) throws when no process has the id, and
\* JSON.parse throws on a configuration file that holds no JSON text
Throws(pid, config, processes) ==
  \/ pid.content \notin processes
  \/ config.exists /\ config.content = 0

\* the invocation after isOutpostRunning has returned { running: false }:
\* serve goes on to spawn (line 143), status (lines 260-261) and kill
\* (lines 277-279) print and end
NotRunning(inv) ==
  IF inv.command \in {"serve --detached", "serve"}
  THEN [inv EXCEPT !.ipc = "spawn", !.running = FALSE]
  ELSE [inv EXCEPT !.ipc = "done", !.running = FALSE,
                   !.status = Exited(0)]

\* the invocation after { running: true, pid }: serve reports it and exits
\* with status 1 (lines 134-141), status prints it (lines 249-258), kill
\* goes on to stop it (line 282)
Running(inv, pid) ==
  IF inv.command \in {"serve --detached", "serve"}
  THEN [inv EXCEPT !.ipc = "done", !.running = TRUE, !.pid = pid,
                   !.status = Exited(1)]
  ELSE IF inv.command = "status"
  THEN [inv EXCEPT !.ipc = "done", !.running = TRUE, !.pid = pid,
                   !.status = Exited(0)]
  ELSE [inv EXCEPT !.ipc = "sigterm", !.running = TRUE, !.pid = pid]

\* lines 46-62 of isOutpostRunning
IsOutpostRunningChecks(n) ==
  /\ invocations[n].ipc = "isOutpostRunning"
  /\ invocations' =
       [invocations EXCEPT ![n] =
          IF ~pidFile.exists THEN NotRunning(@)
          ELSE IF Throws(pidFile, configFile, alive)
          THEN [@ EXCEPT !.ipc = "catch"]
          ELSE Running(@, pidFile.content)]
  /\ UNCHANGED <<pidFile, configFile, alive, spawned>>
  /\ UNCHANGED <<parserVars, creationVars, store, validationVars,
                 coverageVars>>
  /\ UNCHANGED otherThanOutpost

\* lines 63-70 of isOutpostRunning: unlinkSync throws out of the catch
\* clause when the PID file is gone by now, and the process ends with
\* status 1
IsOutpostRunningCatches(n) ==
  /\ invocations[n].ipc = "catch"
  /\ IF pidFile.exists
     THEN /\ pidFile' = Absent
          /\ configFile' = Absent
          /\ invocations' = [invocations EXCEPT ![n] = NotRunning(@)]
     ELSE /\ invocations' =
               [invocations EXCEPT ![n] =
                  [@ EXCEPT !.ipc = "done", !.status = Exited(1)]]
          /\ UNCHANGED <<pidFile, configFile>>
  /\ UNCHANGED <<alive, spawned>>
  /\ UNCHANGED <<parserVars, creationVars, store, validationVars,
                 coverageVars>>
  /\ UNCHANGED otherThanOutpost

\* lines 143-213 and 231-234: the executable is looked up, which may
\* fail, and the server is spawned
ServeSpawns(n) ==
  /\ invocations[n].ipc = "spawn"
  /\ spawned < MaxServers
  /\ \E found \in BOOLEAN :
       IF found
       THEN /\ spawned' = spawned + 1
            /\ alive' = alive \cup {spawned + 1}
            /\ invocations' =
                 [invocations EXCEPT ![n] =
                    [@ EXCEPT !.child = spawned + 1,
                              !.ipc = IF invocations[n].command
                                           = "serve --detached"
                                      THEN "open pid file"
                                      ELSE "foreground"]]
       ELSE /\ invocations' =
                 [invocations EXCEPT ![n] =
                    [@ EXCEPT !.ipc = "done", !.status = Exited(1)]]
            /\ UNCHANGED <<alive, spawned>>
  /\ UNCHANGED <<pidFile, configFile>>
  /\ UNCHANGED <<parserVars, creationVars, store, validationVars,
                 coverageVars>>
  /\ UNCHANGED otherThanOutpost

\* line 78, writeFileSync(PID_FILE, ...): the file is opened
SavePidOpens(n) ==
  /\ invocations[n].ipc = "open pid file"
  /\ pidFile' = Empty
  /\ invocations' = [invocations EXCEPT ![n].ipc = "write pid file"]
  /\ UNCHANGED <<configFile, alive, spawned>>
  /\ UNCHANGED <<parserVars, creationVars, store, validationVars,
                 coverageVars>>
  /\ UNCHANGED otherThanOutpost

\* line 78: the process id is written
SavePidWrites(n) ==
  /\ invocations[n].ipc = "write pid file"
  /\ pidFile' = IF pidFile.exists THEN Written(invocations[n].child)
                ELSE pidFile
  /\ invocations' = [invocations EXCEPT ![n].ipc = "open config file"]
  /\ UNCHANGED <<configFile, alive, spawned>>
  /\ UNCHANGED <<parserVars, creationVars, store, validationVars,
                 coverageVars>>
  /\ UNCHANGED otherThanOutpost

\* line 79, writeFileSync(CONFIG_FILE, ...): the file is opened
SaveConfigOpens(n) ==
  /\ invocations[n].ipc = "open config file"
  /\ configFile' = Empty
  /\ invocations' = [invocations EXCEPT ![n].ipc = "write config file"]
  /\ UNCHANGED <<pidFile, alive, spawned>>
  /\ UNCHANGED <<parserVars, creationVars, store, validationVars,
                 coverageVars>>
  /\ UNCHANGED otherThanOutpost

\* line 79: the JSON text is written; lines 203-205, the command ends
SaveConfigWrites(n) ==
  /\ invocations[n].ipc = "write config file"
  /\ configFile' = IF configFile.exists THEN Written(1) ELSE configFile
  /\ invocations' =
       [invocations EXCEPT ![n] =
          [@ EXCEPT !.ipc = "done", !.status = Exited(0)]]
  /\ UNCHANGED <<pidFile, alive, spawned>>
  /\ UNCHANGED <<parserVars, creationVars, store, validationVars,
                 coverageVars>>
  /\ UNCHANGED otherThanOutpost

\* lines 216-221: the server of a foreground serve has exited
ForegroundChildExits(n) ==
  /\ invocations[n].ipc = "foreground"
  /\ invocations[n].child \notin alive
  /\ invocations' =
       [invocations EXCEPT ![n] =
          [@ EXCEPT !.ipc = "done", !.status = Exited(0)]]
  /\ UNCHANGED <<pidFile, configFile, alive, spawned>>
  /\ UNCHANGED <<parserVars, creationVars, store, validationVars,
                 coverageVars>>
  /\ UNCHANGED otherThanOutpost

\* lines 282-289 and 304-309: SIGTERM is sent, on which the server ends
\* now or later; when no process has the id, process.kill throws and the
\* catch clause cleans up
KillSendsSigterm(n) ==
  /\ invocations[n].ipc = "sigterm"
  /\ IF invocations[n].pid \in alive
     THEN /\ \E ends \in BOOLEAN :
               alive' = IF ends THEN alive \ {invocations[n].pid} ELSE alive
          /\ invocations' = [invocations EXCEPT ![n].ipc = "timer"]
          /\ UNCHANGED <<pidFile, configFile>>
     ELSE /\ pidFile' = Absent
          /\ configFile' = Absent
          /\ invocations' =
               [invocations EXCEPT ![n] =
                  [@ EXCEPT !.ipc = "done", !.status = Exited(0)]]
          /\ UNCHANGED alive
  /\ UNCHANGED spawned
  /\ UNCHANGED <<parserVars, creationVars, store, validationVars,
                 coverageVars>>
  /\ UNCHANGED otherThanOutpost

\* lines 289-303: a second later the server is killed if it still runs,
\* and cleanupServerInfo (lines 85-92) removes both files
KillTimerFires(n) ==
  /\ invocations[n].ipc = "timer"
  /\ alive' = alive \ {invocations[n].pid}
  /\ pidFile' = Absent
  /\ configFile' = Absent
  /\ invocations' =
       [invocations EXCEPT ![n] =
          [@ EXCEPT !.ipc = "done", !.status = Exited(0)]]
  /\ UNCHANGED spawned
  /\ UNCHANGED <<parserVars, creationVars, store, validationVars,
                 coverageVars>>
  /\ UNCHANGED otherThanOutpost

\* a server ends on its own, or by a signal of the user
ServerExits ==
  /\ \E p \in alive : alive' = alive \ {p}
  /\ UNCHANGED <<pidFile, configFile, spawned, invocations>>
  /\ UNCHANGED <<parserVars, creationVars, store, validationVars,
                 coverageVars>>
  /\ UNCHANGED otherThanOutpost

\* no server runs and no file is left over
OutpostInit ==
  /\ repositoryPath = RepoRoot
  /\ disk = DocumentDisk
  /\ ParserIdle
  /\ CreationIdle
  /\ store = <<>>
  /\ ValidationIdle
  /\ CoverageIdle
  /\ StampIdle
  /\ UntrackedIdle
  /\ ValidateAllIdle
  /\ RootIdle
  /\ OutpostIdle

OutpostNext ==
  \/ OutpostInvoked
  \/ \E n \in 1..Len(invocations) : IsOutpostRunningChecks(n)
  \/ \E n \in 1..Len(invocations) : IsOutpostRunningCatches(n)
  \/ \E n \in 1..Len(invocations) : ServeSpawns(n)
  \/ \E n \in 1..Len(invocations) : SavePidOpens(n)
  \/ \E n \in 1..Len(invocations) : SavePidWrites(n)
  \/ \E n \in 1..Len(invocations) : SaveConfigOpens(n)
  \/ \E n \in 1..Len(invocations) : SaveConfigWrites(n)
  \/ \E n \in 1..Len(invocations) : ForegroundChildExits(n)
  \/ \E n \in 1..Len(invocations) : KillSendsSigterm(n)
  \/ \E n \in 1..Len(invocations) : KillTimerFires(n)
  \/ ServerExits

OutpostSpec == OutpostInit /\ [][OutpostNext]_vars

\* C29: whatever the sequence or interleaving of 'outpost serve' and
\* 'outpost kill' invocations, at most one server started by 'outpost
\* serve' is alive at any time.
C29_AtMostOneServerAlive == Cardinality(alive) <= 1

\* C30: isOutpostRunning returns running = true exactly when the PID file
\* exists and names a live process, and it removes the PID file only when
\* the process the file names is not alive.
C30_PidFileOfLiveServerKept ==
  [][\A n \in 1..Len(invocations) :
       /\ (invocations[n].ipc = "isOutpostRunning"
             /\ invocations'[n].ipc \notin {"isOutpostRunning", "catch"})
            => (invocations'[n].running
                  <=> (pidFile.exists /\ pidFile.content \in alive))
       /\ (invocations[n].ipc = "isOutpostRunning"
             /\ invocations'[n].ipc = "catch")
            => pidFile.content \notin alive]_vars

====
